---------------------------- MODULE Spec2Model ----------------------------
(***************************************************************************)
(* Vanguard: esports telemetry aggregation.                                *)
(*                                                                         *)
(* Python values are modelled as follows.                                  *)
(*   dict            a TLA+ record (a function on strings); a missing key  *)
(*                   is a string outside DOMAIN, d[k] on a missing key is  *)
(*                   a KeyError.                                           *)
(*   list            a sequence.                                           *)
(*   None            the value None below.                                 *)
(*   a call          a record [raised |-> FALSE, value |-> v] when it      *)
(*                   returns v, [raised |-> TRUE, exc |-> name] when it    *)
(*                   raises.                                               *)
(*   round(x, 1)     the integer number of tenths (60.0 is 600), computed  *)
(*                   by RoundHalfEven as Python rounds.                    *)
(***************************************************************************)
EXTENDS Integers, Sequences, FiniteSets, TLC

VARIABLES
    matches,    \* the match list the caller holds: built, generated or loaded
    out,        \* the outcome of the last call made
    rng,        \* the process-wide random source: [tape, pos]
    now,        \* the reading of the wall clock (datetime.now())
    calls,      \* the generator calls and loads that returned a list, oldest first
    analyzer,   \* the analyzer object (self), NoAnalyzer before it is constructed
    env,        \* os.environ, the importable packages and the network
    loader      \* the GridDataLoader object, NoLoader before it is constructed

vars == <<matches, analyzer, out, rng, now, calls, env, loader>>

None == "<None>"
NoCall == [op |-> "none"]
NoAnalyzer == [constructed |-> FALSE]
NoLoader == [constructed |-> FALSE]

Returned(v) == [raised |-> FALSE, value |-> v]
Raised(e) == [raised |-> TRUE, exc |-> e]

Has(d, k) == k \in DOMAIN d
Get(d, k, default) == IF Has(d, k) THEN d[k] ELSE default
Drop(d, k) == [x \in (DOMAIN d) \ {k} |-> d[x]]

Team == "Cloud9"
Enemy == "Enemy Team"

(***************************************************************************)
(* round(num / den) to the nearest integer, ties to the even one, as       *)
(* Python's round and numpy's do. den > 0.                                 *)
(***************************************************************************)
RoundHalfEven(num, den) ==
    LET q == num \div den
        r == num % den
    IN  IF 2 * r < den THEN q
        ELSE IF 2 * r > den THEN q + 1
        ELSE IF q % 2 = 0 THEN q ELSE q + 1

\* num / den * 100 cut after the first decimal, in tenths of a percent
Pct1Truncated(num, den) == (1000 * num) \div den

\* round(num / den * 100, 1), in tenths of a percent
Pct1(num, den) == RoundHalfEven(1000 * num, den)

\* (num / den * 100) if den > 0 else 0, then round(.., 1)
RateOrZero(num, den) == IF den > 0 THEN Pct1(num, den) ELSE 0


(***************************************************************************)
(* collections.Counter: an insertion-ordered mapping, here a sequence of   *)
(* <<key, count>> pairs in the order the keys were first counted.          *)
(***************************************************************************)
CounterKeys(c) == {c[i][1] : i \in 1..Len(c)}
CounterGet(c, k) ==
    IF k \in CounterKeys(c)
    THEN LET i == CHOOSE j \in 1..Len(c) : c[j][1] = k IN c[i][2]
    ELSE 0
CounterInc(c, k) ==
    IF k \in CounterKeys(c)
    THEN LET i == CHOOSE j \in 1..Len(c) : c[j][1] = k
         IN  [c EXCEPT ![i] = <<k, c[i][2] + 1>>]
    ELSE Append(c, <<k, 1>>)
RECURSIVE CounterSum(_)
CounterSum(c) == IF c = <<>> THEN 0 ELSE Head(c)[2] + CounterSum(Tail(c))
\* the last key, in insertion order, whose count is the largest
CounterMaxKeyLast(c) ==
    LET i == CHOOSE j \in 1..Len(c) :
                 /\ \A k \in 1..Len(c) : c[k][2] <= c[j][2]
                 /\ \A k \in (j + 1)..Len(c) : c[k][2] < c[j][2]
    IN  c[i][1]

\* max(c, key=c.get): the first key, in insertion order, whose count is the largest
CounterMaxKey(c) ==
    LET i == CHOOSE j \in 1..Len(c) :
                 /\ \A k \in 1..Len(c) : c[k][2] <= c[j][2]
                 /\ \A k \in 1..(j - 1) : c[k][2] < c[j][2]
    IN  c[i][1]

(***************************************************************************)
(* ValorantAnalyzer                                                        *)
(***************************************************************************)
\* self.team_name, set by the constructor
TeamNameOf(ms) == IF ms # <<>> THEN ms[1]["team"] ELSE "Unknown"

\* A loop's accumulators are values at every iteration: the test makes TLC
\* evaluate v where it stands instead of carrying it along as an expression
\* nested as deep as the loop is long.
Evaluated(v) == v \in {v}

\* for match in self.matches: for round_data in match.get("rounds", [])
RECURSIVE RoundsScanned(_)
RoundsScanned(ms) ==
    IF ms = <<>> THEN <<>>
    ELSE Get(Head(ms), "rounds", <<>>) \o RoundsScanned(Tail(ms))

RECURSIVE OpeningDuelLoop(_, _, _)
OpeningDuelLoop(rs, team, acc) ==
    IF rs = <<>> \/ ~Evaluated(acc) THEN acc
    ELSE LET round_data == Head(rs)
             got_first_blood == round_data["first_blood_team"] = team
             won_round == round_data["winner"] = team
         IN  OpeningDuelLoop(Tail(rs), team,
                 [total_rounds |-> acc.total_rounds + 1,
                  team_first_bloods |->
                      acc.team_first_bloods + (IF got_first_blood THEN 1 ELSE 0),
                  rounds_won_with_fb |->
                      acc.rounds_won_with_fb
                          + (IF got_first_blood /\ won_round THEN 1 ELSE 0),
                  rounds_won_without_fb |->
                      acc.rounds_won_without_fb
                          + (IF ~got_first_blood /\ won_round THEN 1 ELSE 0)])

\* an opening-duel metric whose conversion is taken over all rounds
calculate_opening_duel_winrate_per_round(self) ==
    LET c == OpeningDuelLoop(RoundsScanned(self.matches), self.team_name,
                 [total_rounds |-> 0, team_first_bloods |-> 0,
                  rounds_won_with_fb |-> 0, rounds_won_without_fb |-> 0])
        fb_rate == RateOrZero(c.team_first_bloods, c.total_rounds)
        fb_conversion == RateOrZero(c.rounds_won_with_fb, c.total_rounds)
    IN  Returned(
            [first_blood_rate |-> fb_rate,
             first_blood_conversion |-> fb_conversion,
             rounds_with_first_blood |-> c.team_first_bloods,
             rounds_won_with_fb |-> c.rounds_won_with_fb,
             rounds_won_without_fb |-> c.rounds_won_without_fb,
             total_rounds |-> c.total_rounds,
             insight |-> [grade |-> IF 1000 * c.team_first_bloods > 550 * c.total_rounds
                                    THEN "ELITE" ELSE "AVERAGE",
                          fb_rate |-> fb_rate,
                          fb_conversion |-> fb_conversion]])

calculate_opening_duel_winrate(self) ==
    LET c == OpeningDuelLoop(RoundsScanned(self.matches), self.team_name,
                 [total_rounds |-> 0, team_first_bloods |-> 0,
                  rounds_won_with_fb |-> 0, rounds_won_without_fb |-> 0])
        fb_rate == RateOrZero(c.team_first_bloods, c.total_rounds)
        fb_conversion == RateOrZero(c.rounds_won_with_fb, c.team_first_bloods)
    IN  Returned(
            [first_blood_rate |-> fb_rate,
             first_blood_conversion |-> fb_conversion,
             rounds_with_first_blood |-> c.team_first_bloods,
             rounds_won_with_fb |-> c.rounds_won_with_fb,
             rounds_won_without_fb |-> c.rounds_won_without_fb,
             total_rounds |-> c.total_rounds,
             insight |-> [grade |-> IF 1000 * c.team_first_bloods > 550 * c.total_rounds
                                    THEN "ELITE" ELSE "AVERAGE",
                          fb_rate |-> fb_rate,
                          fb_conversion |-> fb_conversion]])

Sites == <<"A", "B", "C">>
SiteSet == {Sites[i] : i \in 1..Len(Sites)}

RECURSIVE SiteBiasLoop(_, _, _)
SiteBiasLoop(rs, team, acc) ==
    IF rs = <<>> \/ ~Evaluated(acc) THEN acc
    ELSE LET round_data == Head(rs)
             spike_site == Get(round_data, "spike_site", None)
         IN  SiteBiasLoop(Tail(rs), team,
                 IF spike_site # None
                 THEN [site_attacks |-> CounterInc(acc.site_attacks, spike_site),
                       site_wins |-> IF round_data["winner"] = team
                                     THEN CounterInc(acc.site_wins, spike_site)
                                     ELSE acc.site_wins]
                 ELSE acc)

\* a favorite that, among the sites with the largest count, is the one
\* counted last
FavoriteSiteLastTied(site_attacks) ==
    IF site_attacks # <<>>
    THEN LET i == CHOOSE j \in 1..Len(site_attacks) :
                      /\ \A k \in 1..Len(site_attacks) :
                             site_attacks[k][2] <= site_attacks[j][2]
                      /\ \A k \in (j + 1)..Len(site_attacks) :
                             site_attacks[k][2] < site_attacks[j][2]
         IN  site_attacks[i][1]
    ELSE "Unknown"

\* "Unknown" when no round has a spike site
FavoriteSite(site_attacks) ==
    IF site_attacks # <<>> THEN CounterMaxKey(site_attacks) ELSE "Unknown"

\* a site bias whose denominator counts the rounds without a plant too
calculate_site_bias_per_round(self) ==
    LET c == SiteBiasLoop(RoundsScanned(self.matches), self.team_name,
                 [site_attacks |-> <<>>, site_wins |-> <<>>])
        total_attacks == Len(RoundsScanned(self.matches))
        site_percentages ==
            [site \in SiteSet |->
                IF total_attacks > 0
                THEN Pct1(CounterGet(c.site_attacks, site), total_attacks) ELSE 0]
        site_win_rates ==
            [site \in SiteSet |->
                RateOrZero(CounterGet(c.site_wins, site),
                           CounterGet(c.site_attacks, site))]
        favorite_site == FavoriteSite(c.site_attacks)
    IN  \* the insight reads site_percentages[f"site_{favorite_site}_percent"]
        IF favorite_site \notin DOMAIN site_percentages
        THEN Raised("KeyError")
        ELSE Returned(
            [site_percent |-> site_percentages,
             site_winrate |-> site_win_rates,
             total_spike_plants |-> total_attacks,
             favorite_site |-> favorite_site,
             favorite_site_attacks |-> CounterGet(c.site_attacks, favorite_site),
             site_attack_distribution |-> c.site_attacks,
             insight |-> [site |-> favorite_site,
                          percent |-> site_percentages[favorite_site]]])

calculate_site_bias(self) ==
    LET c == SiteBiasLoop(RoundsScanned(self.matches), self.team_name,
                 [site_attacks |-> <<>>, site_wins |-> <<>>])
        total_attacks == CounterSum(c.site_attacks)
        site_percentages ==
            [site \in SiteSet |->
                IF total_attacks > 0
                THEN Pct1(CounterGet(c.site_attacks, site), total_attacks) ELSE 0]
        site_win_rates ==
            [site \in SiteSet |->
                RateOrZero(CounterGet(c.site_wins, site),
                           CounterGet(c.site_attacks, site))]
        favorite_site == FavoriteSite(c.site_attacks)
    IN  \* the insight reads site_percentages[f"site_{favorite_site}_percent"]
        IF favorite_site \notin DOMAIN site_percentages
        THEN Raised("KeyError")
        ELSE Returned(
            [site_percent |-> site_percentages,
             site_winrate |-> site_win_rates,
             total_spike_plants |-> total_attacks,
             favorite_site |-> favorite_site,
             favorite_site_attacks |-> CounterGet(c.site_attacks, favorite_site),
             site_attack_distribution |-> c.site_attacks,
             insight |-> [site |-> favorite_site,
                          percent |-> site_percentages[favorite_site]]])

EcoLimit == 2000
FullBuyLimit == 3500

\* a bucketing that takes the eco bucket from the round's is_team_eco flag
RECURSIVE EcoLoopByFlag(_, _, _)
EcoLoopByFlag(rs, team, acc) ==
    IF rs = <<>> \/ ~Evaluated(acc) THEN acc
    ELSE LET round_data == Head(rs)
             team_loadout == round_data["team_loadout_value"]
             w == IF round_data["winner"] = team THEN 1 ELSE 0
         IN  EcoLoopByFlag(Tail(rs), team,
                 IF Get(round_data, "is_team_eco", team_loadout < EcoLimit)
                 THEN [acc EXCEPT !.eco_rounds = @ + 1, !.eco_wins = @ + w]
                 ELSE IF team_loadout < FullBuyLimit
                 THEN [acc EXCEPT !.force_rounds = @ + 1, !.force_wins = @ + w]
                 ELSE [acc EXCEPT !.full_buy_rounds = @ + 1, !.full_buy_wins = @ + w])

RECURSIVE EcoLoop(_, _, _)
EcoLoop(rs, team, acc) ==
    IF rs = <<>> \/ ~Evaluated(acc) THEN acc
    ELSE LET round_data == Head(rs)
             team_loadout == round_data["team_loadout_value"]
             w == IF round_data["winner"] = team THEN 1 ELSE 0
         IN  EcoLoop(Tail(rs), team,
                 IF team_loadout < EcoLimit
                 THEN [acc EXCEPT !.eco_rounds = @ + 1, !.eco_wins = @ + w]
                 ELSE IF EcoLimit <= team_loadout /\ team_loadout < FullBuyLimit
                 THEN [acc EXCEPT !.force_rounds = @ + 1, !.force_wins = @ + w]
                 ELSE [acc EXCEPT !.full_buy_rounds = @ + 1, !.full_buy_wins = @ + w])

calculate_eco_conversion(self) ==
    LET c == EcoLoop(RoundsScanned(self.matches), self.team_name,
                 [eco_rounds |-> 0, eco_wins |-> 0, force_rounds |-> 0,
                  force_wins |-> 0, full_buy_rounds |-> 0, full_buy_wins |-> 0])
        eco_conversion_rate == RateOrZero(c.eco_wins, c.eco_rounds)
    IN  Returned(
            [eco_conversion_rate |-> eco_conversion_rate,
             eco_rounds_played |-> c.eco_rounds,
             eco_rounds_won |-> c.eco_wins,
             force_buy_winrate |-> RateOrZero(c.force_wins, c.force_rounds),
             force_rounds_played |-> c.force_rounds,
             full_buy_winrate |-> RateOrZero(c.full_buy_wins, c.full_buy_rounds),
             full_buy_rounds_played |-> c.full_buy_rounds,
             insight |-> [grade |-> IF 100 * c.eco_wins > 20 * c.eco_rounds
                                    THEN "DANGEROUS" ELSE "PREDICTABLE",
                          rate |-> eco_conversion_rate]])

\* sum(1 for x in seq if P(x)), as a count over the positions
CountIf(seq, P(_)) == Cardinality({i \in 1..Len(seq) : P(seq[i])})

RECURSIVE SumLen(_, _)
SumLen(ms, k) == IF ms = <<>> THEN 0 ELSE Len(Head(ms)[k]) + SumLen(Tail(ms), k)

RECURSIVE TeamRoundsWon(_, _)
TeamRoundsWon(ms, team) ==
    IF ms = <<>> THEN 0
    ELSE LET IsTeamWin(r) == r["winner"] = team
         IN  CountIf(Head(ms)["rounds"], IsTeamWin) + TeamRoundsWon(Tail(ms), team)

\* a complete analysis whose round win rate divides the rounds won by the
\* number of matches
ValorantCompleteAnalysisPerMatch(self) ==
    LET ms == self.matches
        total_matches == Len(ms)
        Won(m) == m["won"]
        opening == calculate_opening_duel_winrate(self)
        site == calculate_site_bias(self)
        eco == calculate_eco_conversion(self)
    IN  IF \E i \in 1..Len(ms) : ~Has(ms[i], "won") THEN Raised("KeyError")
        ELSE IF \E i \in 1..Len(ms) : ~Has(ms[i], "rounds") THEN Raised("KeyError")
        ELSE IF opening.raised THEN opening
        ELSE IF site.raised THEN site
        ELSE IF eco.raised THEN eco
        ELSE Returned(
            [team_name |-> self.team_name,
             matches_analyzed |-> total_matches,
             match_win_rate |-> RateOrZero(CountIf(ms, Won), total_matches),
             round_win_rate |->
                 RateOrZero(TeamRoundsWon(ms, self.team_name), total_matches),
             total_rounds_played |-> SumLen(ms, "rounds"),
             opening_duel_stats |-> opening.value,
             site_bias_stats |-> site.value,
             economy_stats |-> eco.value])

ValorantCompleteAnalysis(self) ==
    LET ms == self.matches
        total_matches == Len(ms)
        Won(m) == m["won"]
        opening == calculate_opening_duel_winrate(self)
        site == calculate_site_bias(self)
        eco == calculate_eco_conversion(self)
    IN  IF \E i \in 1..Len(ms) : ~Has(ms[i], "won") THEN Raised("KeyError")
        ELSE IF \E i \in 1..Len(ms) : ~Has(ms[i], "rounds") THEN Raised("KeyError")
        ELSE IF opening.raised THEN opening
        ELSE IF site.raised THEN site
        ELSE IF eco.raised THEN eco
        ELSE Returned(
            [team_name |-> self.team_name,
             matches_analyzed |-> total_matches,
             match_win_rate |-> RateOrZero(CountIf(ms, Won), total_matches),
             round_win_rate |->
                 RateOrZero(TeamRoundsWon(ms, self.team_name), SumLen(ms, "rounds")),
             total_rounds_played |-> SumLen(ms, "rounds"),
             opening_duel_stats |-> opening.value,
             site_bias_stats |-> site.value,
             economy_stats |-> eco.value])

(***************************************************************************)
(* Values the variables of the other components hold while one component   *)
(* runs alone.                                                             *)
(***************************************************************************)
IdleRng == [tape |-> <<>>, pos |-> 0]
IdleEnv == [idle |-> TRUE]
Call(op, res) == [op |-> op] @@ res

(***************************************************************************)
(* The caller of ValorantAnalyzer: it builds a match list, constructs the  *)
(* analyzer on it and calls its methods in any order, any number of times. *)
(* The rounds of one list are drawn from one of the sample sets below      *)
(* (each varies the fields one metric group reads).                        *)
(***************************************************************************)
MaxMatches == 2
MaxRounds == 3

Labels == {Team, Enemy}
LoadoutSamples == {EcoLimit - 1, EcoLimit, FullBuyLimit - 1, FullBuyLimit}
RoundSamples ==
    << [winner : Labels, first_blood_team : Labels, spike_site : {None},
        team_loadout_value : {FullBuyLimit}],
       [winner : Labels, first_blood_team : {Enemy}, spike_site : SiteSet \cup {None},
        team_loadout_value : {FullBuyLimit}],
       [winner : Labels, first_blood_team : {Enemy}, spike_site : {None},
        team_loadout_value : LoadoutSamples] >>
AllRoundSamples == UNION {RoundSamples[a] : a \in 1..Len(RoundSamples)}

RoundsIn(ms) == LET rs == RoundsScanned(ms) IN {rs[i] : i \in 1..Len(rs)}
FromOneSample(rounds) == \E a \in 1..Len(RoundSamples) : rounds \subseteq RoundSamples[a]
Last(seq) == seq[Len(seq)]
SetLast(seq, x) == [seq EXCEPT ![Len(seq)] = x]

ValFields == {"team", "won", "rounds"}
Building == ~analyzer.constructed
OtherIdle == UNCHANGED <<rng, now, calls, env, loader>>

ValAddMatch(won) ==
    /\ Building
    /\ Len(matches) < MaxMatches
    /\ won \/ RoundsScanned(matches) = <<>>
    /\ matches' = Append(matches, [team |-> Team, won |-> won, rounds |-> <<>>])
    /\ UNCHANGED <<analyzer, out>>
    /\ OtherIdle

ValAddRound(r) ==
    /\ Building
    /\ matches # <<>>
    /\ \A i \in 1..Len(matches) : ValFields \subseteq DOMAIN matches[i] /\ matches[i]["won"]
    /\ Len(RoundsScanned(matches)) < MaxRounds
    /\ FromOneSample(RoundsIn(matches) \cup {r})
    /\ matches' = SetLast(matches, [Last(matches) EXCEPT !["rounds"] = Append(@, r)])
    /\ UNCHANGED <<analyzer, out>>
    /\ OtherIdle

\* a record that lacks a required field
ValDropField(k) ==
    /\ Building
    /\ matches # <<>>
    /\ RoundsScanned(matches) = <<>>
    /\ \A i \in 1..Len(matches) : ValFields \subseteq DOMAIN matches[i]
    /\ matches' = SetLast(matches, Drop(Last(matches), k))
    /\ UNCHANGED <<analyzer, out>>
    /\ OtherIdle

\* the object cls(ms) of class cls: self.matches and self.team_name
Constructed(cls, ms) ==
    [constructed |-> TRUE, class |-> cls, matches |-> ms, team_name |-> TeamNameOf(ms)]

ValConstruct ==
    /\ Building
    /\ analyzer' = Constructed("ValorantAnalyzer", matches)
    /\ UNCHANGED <<matches, out>>
    /\ OtherIdle

\* the analyzer after a call of a method that empties self.matches
AfterCallConsuming(self, op) == [self EXCEPT !.matches = <<>>]

\* the analyzer after a call of method op: no method assigns an attribute
\* of self or changes the stored list in place
AfterCall(self, op) == self

ValCall(op, res) ==
    /\ analyzer.constructed
    /\ out' = Call(op, res)
    /\ analyzer' = AfterCall(analyzer, op)
    /\ UNCHANGED matches
    /\ OtherIdle

ValOpeningDuel == ValCall("calculate_opening_duel_winrate", calculate_opening_duel_winrate(analyzer))
ValSiteBias == ValCall("calculate_site_bias", calculate_site_bias(analyzer))
ValEco == ValCall("calculate_eco_conversion", calculate_eco_conversion(analyzer))
ValComplete == ValCall("get_complete_analysis", ValorantCompleteAnalysis(analyzer))

InitAnalyzer ==
    /\ matches = <<>>
    /\ analyzer = NoAnalyzer
    /\ out = NoCall
    /\ rng = IdleRng
    /\ now = 0
    /\ calls = <<>>
    /\ env = IdleEnv
    /\ loader = NoLoader

NextVal ==
    \/ \E won \in BOOLEAN : ValAddMatch(won)
    \/ \E r \in AllRoundSamples : ValAddRound(r)
    \/ \E k \in {"won", "rounds"} : ValDropField(k)
    \/ ValConstruct
    \/ ValOpeningDuel
    \/ ValSiteBias
    \/ ValEco
    \/ ValComplete

SpecVal == InitAnalyzer /\ [][NextVal]_vars

(***************************************************************************)
(* Properties of ValorantAnalyzer (checked under SpecVal).                 *)
(***************************************************************************)
ValOps == {"calculate_opening_duel_winrate", "calculate_site_bias",
           "calculate_eco_conversion", "get_complete_analysis"}
ValCalled(op) == analyzer.constructed /\ out.op = op

\* how many rounds of the analyzed list satisfy P
NumRounds(P(_)) == CountIf(RoundsScanned(analyzer.matches), P)
IsAny(r) == TRUE
IsTeamFirstBlood(r) == r["first_blood_team"] = analyzer.team_name
IsPlant(r) == Get(r, "spike_site", None) # None
IsEco(r) == r["team_loadout_value"] < EcoLimit
IsForce(r) == EcoLimit <= r["team_loadout_value"] /\ r["team_loadout_value"] < FullBuyLimit
IsFullBuy(r) == r["team_loadout_value"] >= FullBuyLimit

OpeningNeutral(v) ==
    /\ v.first_blood_rate = 0 /\ v.first_blood_conversion = 0
    /\ v.rounds_with_first_blood = 0 /\ v.rounds_won_with_fb = 0
    /\ v.rounds_won_without_fb = 0 /\ v.total_rounds = 0
SiteNeutral(v) ==
    /\ \A s \in SiteSet : v.site_percent[s] = 0 /\ v.site_winrate[s] = 0
    /\ v.total_spike_plants = 0 /\ v.favorite_site_attacks = 0
EcoNeutral(v) ==
    /\ v.eco_conversion_rate = 0 /\ v.force_buy_winrate = 0 /\ v.full_buy_winrate = 0
    /\ v.eco_rounds_played = 0 /\ v.eco_rounds_won = 0
    /\ v.force_rounds_played = 0 /\ v.full_buy_rounds_played = 0

\* C1: a ValorantAnalyzer built on an empty match list answers every call
\* (get_complete_analysis and the three calculate_* methods) without raising,
\* with team name "Unknown", zero counts and every rate equal to 0.
C1_ValEmptyListNeutral ==
    (analyzer.constructed /\ analyzer.matches = <<>> /\ out.op \in ValOps) =>
        /\ analyzer.team_name = "Unknown"
        /\ ~out.raised
        /\ ValCalled("calculate_opening_duel_winrate") => OpeningNeutral(out.value)
        /\ ValCalled("calculate_site_bias") => SiteNeutral(out.value)
        /\ ValCalled("calculate_eco_conversion") => EcoNeutral(out.value)
        /\ ValCalled("get_complete_analysis") =>
              /\ out.value.team_name = "Unknown"
              /\ out.value.matches_analyzed = 0
              /\ out.value.match_win_rate = 0
              /\ out.value.round_win_rate = 0
              /\ out.value.total_rounds_played = 0
              /\ OpeningNeutral(out.value.opening_duel_stats)
              /\ SiteNeutral(out.value.site_bias_stats)
              /\ EcoNeutral(out.value.economy_stats)

\* C3: whenever the denominator of a rate is 0, the method computing it returns
\* without raising and reports the rate as exactly 0: first-blood rate (no
\* rounds), first-blood conversion (no team first bloods), site percentages (no
\* round has a spike site), per-site win rate (site never attacked), economy
\* bucket win rates (bucket empty).
C3_ZeroDenominatorRateIsZero ==
    /\ (ValCalled("calculate_opening_duel_winrate") /\ NumRounds(IsAny) = 0) =>
          ~out.raised /\ out.value.first_blood_rate = 0
    /\ (ValCalled("calculate_opening_duel_winrate") /\ NumRounds(IsTeamFirstBlood) = 0) =>
          ~out.raised /\ out.value.first_blood_conversion = 0
    /\ (ValCalled("calculate_site_bias") /\ NumRounds(IsPlant) = 0) =>
          ~out.raised /\ \A s \in SiteSet : out.value.site_percent[s] = 0
    /\ \A s \in SiteSet :
          LET IsAttackOn(r) == Get(r, "spike_site", None) = s
          IN  (ValCalled("calculate_site_bias") /\ NumRounds(IsAttackOn) = 0) =>
                  ~out.raised /\ out.value.site_winrate[s] = 0
    /\ (ValCalled("calculate_eco_conversion") /\ NumRounds(IsEco) = 0) =>
          ~out.raised /\ out.value.eco_conversion_rate = 0
    /\ (ValCalled("calculate_eco_conversion") /\ NumRounds(IsForce) = 0) =>
          ~out.raised /\ out.value.force_buy_winrate = 0
    /\ (ValCalled("calculate_eco_conversion") /\ NumRounds(IsFullBuy) = 0) =>
          ~out.raised /\ out.value.full_buy_winrate = 0

(***************************************************************************)
(* LolAnalyzer                                                             *)
(***************************************************************************)
\* for match in self.matches: all.extend(match.get(key, []))
RECURSIVE EventsScanned(_, _)
EventsScanned(ms, key) ==
    IF ms = <<>> THEN <<>>
    ELSE Get(Head(ms), key, <<>>) \o EventsScanned(Tail(ms), key)

\* Counter(pos["lane"] for pos in all_positions)
RECURSIVE LaneCounter(_, _)
LaneCounter(ps, c) ==
    IF ps = <<>> THEN c ELSE LaneCounter(Tail(ps), CounterInc(c, Head(ps)["lane"]))

Max3(a, b, c) == IF a >= b /\ a >= c THEN a ELSE IF b >= c THEN b ELSE c

\* calculate_jungle_proximity without its "if not all_positions" return: the
\* percentages divide by a total of 0
calculate_jungle_proximity_unguarded(self) ==
    IF EventsScanned(self.matches, "jungle_positions") = <<>>
    THEN Raised("ZeroDivisionError")
    ELSE Returned([top_lane_percent |-> 0, mid_lane_percent |-> 0,
                   bot_lane_percent |-> 0, positions |-> <<>>])

calculate_jungle_proximity(self) ==
    LET all_positions == EventsScanned(self.matches, "jungle_positions")
        lane_counter == LaneCounter(all_positions, <<>>)
        total == Len(all_positions)
        top == CounterGet(lane_counter, "Top")
        mid == CounterGet(lane_counter, "Mid")
        bot == CounterGet(lane_counter, "Bot")
    IN  IF all_positions = <<>>
        THEN Returned(
            [top_lane_percent |-> 0, mid_lane_percent |-> 0, bot_lane_percent |-> 0,
             positions |-> <<>>])
        ELSE Returned(
            [top_lane_percent |-> Pct1(top, total),
             mid_lane_percent |-> Pct1(mid, total),
             bot_lane_percent |-> Pct1(bot, total),
             total_samples |-> total,
             heatmap_data |->
                 [x |-> [i \in 1..total |-> all_positions[i]["x"]],
                  y |-> [i \in 1..total |-> all_positions[i]["y"]],
                  lane |-> [i \in 1..total |-> all_positions[i]["lane"]]],
             insight |-> [percent |-> Pct1(Max3(top, mid, bot), total),
                          lane |-> CounterMaxKey(lane_counter)]])

\* for x in events: total += 1; if x["team"] == self.team_name: team += 1
RECURSIVE CaptureLoop(_, _, _)
CaptureLoop(events, team, acc) ==
    IF events = <<>> THEN acc
    ELSE CaptureLoop(Tail(events), team,
             [total |-> acc.total + 1,
              team |-> acc.team + (IF Head(events)["team"] = team THEN 1 ELSE 0)])

\* a first-dragon count that credits the team with any dragon of the match
RECURSIVE FirstDragonLoopAnyDragon(_, _, _)
FirstDragonLoopAnyDragon(ms, team, acc) ==
    IF ms = <<>> THEN acc
    ELSE LET dragons == Get(Head(ms), "dragons", <<>>)
         IN  FirstDragonLoopAnyDragon(Tail(ms), team,
                 IF dragons # <<>>
                 THEN [first_dragons |-> acc.first_dragons + 1,
                       first_dragons_taken |->
                           acc.first_dragons_taken
                               + (IF \E i \in 1..Len(dragons) : dragons[i]["team"] = team
                                  THEN 1 ELSE 0)]
                 ELSE acc)

RECURSIVE FirstDragonLoop(_, _, _)
FirstDragonLoop(ms, team, acc) ==
    IF ms = <<>> THEN acc
    ELSE LET dragons == Get(Head(ms), "dragons", <<>>)
         IN  FirstDragonLoop(Tail(ms), team,
                 IF dragons # <<>>
                 THEN [first_dragons |-> acc.first_dragons + 1,
                       first_dragons_taken |->
                           acc.first_dragons_taken
                               + (IF dragons[1]["team"] = team THEN 1 ELSE 0)]
                 ELSE acc)

\* the mean, over the matches that have captures of a kind, of the share of
\* them the team took in the match, as a percentage rounded to one decimal
RECURSIVE PerMatchShares(_, _, _, _)
PerMatchShares(ms, key, team, acc) ==
    IF ms = <<>> THEN acc
    ELSE LET c == CaptureLoop(Get(Head(ms), key, <<>>), team, [total |-> 0, team |-> 0])
         IN  PerMatchShares(Tail(ms), key, team,
                 IF c.total > 0
                 THEN [num |-> acc.num * c.total + c.team * acc.den,
                       den |-> acc.den * c.total,
                       n |-> acc.n + 1]
                 ELSE acc)
PerMatchAverage(ms, key, team) ==
    LET s == PerMatchShares(ms, key, team, [num |-> 0, den |-> 1, n |-> 0])
    IN  IF s.n > 0 THEN Pct1(s.num, s.den * s.n) ELSE 0

\* an objective control whose overall rates average the rates of the matches
calculate_objective_control_per_match(self) ==
    LET ms == self.matches
        Zero == [total |-> 0, team |-> 0]
        fd == FirstDragonLoop(ms, self.team_name,
                  [first_dragons |-> 0, first_dragons_taken |-> 0])
        d == CaptureLoop(EventsScanned(ms, "dragons"), self.team_name, Zero)
        h == CaptureLoop(EventsScanned(ms, "heralds"), self.team_name, Zero)
        b == CaptureLoop(EventsScanned(ms, "barons"), self.team_name, Zero)
    IN  Returned(
            [first_dragon_rate |-> RateOrZero(fd.first_dragons_taken, fd.first_dragons),
             overall_dragon_rate |-> PerMatchAverage(ms, "dragons", self.team_name),
             herald_control_rate |-> PerMatchAverage(ms, "heralds", self.team_name),
             baron_control_rate |-> PerMatchAverage(ms, "barons", self.team_name),
             total_dragons |-> d.total,
             team_dragons |-> d.team,
             total_heralds |-> h.total,
             team_heralds |-> h.team,
             total_barons |-> b.total,
             team_barons |-> b.team,
             insight |->
                 [grade |-> IF 100 * fd.first_dragons_taken > 70 * fd.first_dragons
                            THEN "DOMINATES" ELSE "STRUGGLES WITH",
                  percent |-> IF fd.first_dragons > 0
                              THEN RoundHalfEven(100 * fd.first_dragons_taken,
                                                 fd.first_dragons)
                              ELSE 0]])

calculate_objective_control(self) ==
    LET ms == self.matches
        Zero == [total |-> 0, team |-> 0]
        fd == FirstDragonLoop(ms, self.team_name,
                  [first_dragons |-> 0, first_dragons_taken |-> 0])
        d == CaptureLoop(EventsScanned(ms, "dragons"), self.team_name, Zero)
        h == CaptureLoop(EventsScanned(ms, "heralds"), self.team_name, Zero)
        b == CaptureLoop(EventsScanned(ms, "barons"), self.team_name, Zero)
    IN  Returned(
            [first_dragon_rate |-> RateOrZero(fd.first_dragons_taken, fd.first_dragons),
             overall_dragon_rate |-> RateOrZero(d.team, d.total),
             herald_control_rate |-> RateOrZero(h.team, h.total),
             baron_control_rate |-> RateOrZero(b.team, b.total),
             total_dragons |-> d.total,
             team_dragons |-> d.team,
             total_heralds |-> h.total,
             team_heralds |-> h.team,
             total_barons |-> b.total,
             team_barons |-> b.team,
             insight |->
                 [grade |-> IF 100 * fd.first_dragons_taken > 70 * fd.first_dragons
                            THEN "DOMINATES" ELSE "STRUGGLES WITH",
                  percent |-> IF fd.first_dragons > 0
                              THEN RoundHalfEven(100 * fd.first_dragons_taken,
                                                 fd.first_dragons)
                              ELSE 0]])

\* a bucketing whose windows leave out their end points
RECURSIVE GoldLoopOpenWindows(_, _)
GoldLoopOpenWindows(updates, acc) ==
    IF updates = <<>> THEN acc
    ELSE LET timestamp == Head(updates)["timestamp"]
             gold_diff == Head(updates)["gold_difference"]
         IN  GoldLoopOpenWindows(Tail(updates),
                 IF 9 * 60 < timestamp /\ timestamp < 11 * 60
                 THEN [acc EXCEPT !.gold_at_10 = Append(@, gold_diff)]
                 ELSE IF 14 * 60 < timestamp /\ timestamp < 16 * 60
                 THEN [acc EXCEPT !.gold_at_15 = Append(@, gold_diff)]
                 ELSE IF 19 * 60 < timestamp /\ timestamp < 21 * 60
                 THEN [acc EXCEPT !.gold_at_20 = Append(@, gold_diff)]
                 ELSE acc)

RECURSIVE GoldLoop(_, _)
GoldLoop(updates, acc) ==
    IF updates = <<>> THEN acc
    ELSE LET timestamp == Head(updates)["timestamp"]
             gold_diff == Head(updates)["gold_difference"]
         IN  GoldLoop(Tail(updates),
                 IF 9 * 60 <= timestamp /\ timestamp <= 11 * 60
                 THEN [acc EXCEPT !.gold_at_10 = Append(@, gold_diff)]
                 ELSE IF 14 * 60 <= timestamp /\ timestamp <= 16 * 60
                 THEN [acc EXCEPT !.gold_at_15 = Append(@, gold_diff)]
                 ELSE IF 19 * 60 <= timestamp /\ timestamp <= 21 * 60
                 THEN [acc EXCEPT !.gold_at_20 = Append(@, gold_diff)]
                 ELSE acc)

RECURSIVE SumSeq(_)
SumSeq(s) == IF s = <<>> THEN 0 ELSE Head(s) + SumSeq(Tail(s))

\* np.mean(xs) if xs else 0, as the fraction num / den
Mean(xs) == IF xs # <<>> THEN [num |-> SumSeq(xs), den |-> Len(xs)]
            ELSE [num |-> 0, den |-> 1]
\* round(q, 0)
Round0(q) == RoundHalfEven(q.num, q.den)
\* int(q): truncation towards zero
Trunc(q) == IF q.num >= 0 THEN q.num \div q.den ELSE -((-q.num) \div q.den)

\* the growth computed from the two averages whatever their values
GrowthRateUnguarded(avg_gold_10, avg_gold_15) ==
    [num |-> 60 * (avg_gold_15.num * avg_gold_10.den
                       - avg_gold_10.num * avg_gold_15.den),
     den |-> 5 * avg_gold_10.den * avg_gold_15.den]

\* ((avg_gold_15 - avg_gold_10) / 5) * 60 when both averages are non-zero, else 0
GrowthRate(avg_gold_10, avg_gold_15) ==
    IF avg_gold_10.num # 0 /\ avg_gold_15.num # 0
    THEN [num |-> 60 * (avg_gold_15.num * avg_gold_10.den
                            - avg_gold_10.num * avg_gold_15.den),
          den |-> 5 * avg_gold_10.den * avg_gold_15.den]
    ELSE [num |-> 0, den |-> 1]

calculate_gold_efficiency(self) ==
    LET b == GoldLoop(EventsScanned(self.matches, "gold_updates"),
                      [gold_at_10 |-> <<>>, gold_at_15 |-> <<>>, gold_at_20 |-> <<>>])
        gold_at_10 == b.gold_at_10
        gold_at_15 == b.gold_at_15
        gold_at_20 == b.gold_at_20
        avg_gold_10 == Mean(gold_at_10)
        avg_gold_15 == Mean(gold_at_15)
        avg_gold_20 == Mean(gold_at_20)
        growth_rate == GrowthRate(avg_gold_10, avg_gold_15)
    IN  Returned(
            [gold_diff_at_10min |-> Round0(avg_gold_10),
             gold_diff_at_15min |-> Round0(avg_gold_15),
             gold_diff_at_20min |-> Round0(avg_gold_20),
             gold_growth_rate |-> Round0(growth_rate),
             samples_at_10 |-> Len(gold_at_10),
             samples_at_15 |-> Len(gold_at_15),
             samples_at_20 |-> Len(gold_at_20),
             insight |-> [grade |-> IF avg_gold_15.num > 0 THEN "Strong" ELSE "Weak",
                          gold |-> Trunc(avg_gold_15)]])

RECURSIVE SumField(_, _)
SumField(ms, k) == IF ms = <<>> THEN 0 ELSE Head(ms)[k] + SumField(Tail(ms), k)

LolCompleteAnalysis(self) ==
    LET ms == self.matches
        total_matches == Len(ms)
        Won(m) == m["won"]
        jungle == calculate_jungle_proximity(self)
        objective == calculate_objective_control(self)
        gold == calculate_gold_efficiency(self)
    IN  IF \E i \in 1..Len(ms) : ~Has(ms[i], "won") THEN Raised("KeyError")
        ELSE IF \E i \in 1..Len(ms) : ~Has(ms[i], "duration") THEN Raised("KeyError")
        ELSE IF jungle.raised THEN jungle
        ELSE IF objective.raised THEN objective
        ELSE IF gold.raised THEN gold
        ELSE Returned(
            [team_name |-> self.team_name,
             matches_analyzed |-> total_matches,
             win_rate |-> RateOrZero(CountIf(ms, Won), total_matches),
             \* round(mean(duration) / 60, 1), in tenths of a minute
             avg_game_duration_minutes |->
                 IF ms # <<>>
                 THEN RoundHalfEven(10 * SumField(ms, "duration"), 60 * total_matches)
                 ELSE 0,
             jungle_proximity |-> jungle.value,
             objective_control |-> objective.value,
             gold_efficiency |-> gold.value])

(***************************************************************************)
(* The caller of LolAnalyzer: it builds a match list, constructs the       *)
(* analyzer on it and calls its methods in any order, any number of times. *)
(* One list carries events of one kind (each metric reads its own kind).   *)
(***************************************************************************)
MaxEvents == 3
MaxGold == 2

PlainDuration == 1800
DurationSamples == {1500, PlainDuration, 2400}
EventKinds == {"dragons", "heralds", "barons", "gold_updates", "jungle_positions"}
GoldTimeSamples == {539, 540, 660, 661, 839, 840, 960, 961, 1139, 1140, 1260, 1261}
GoldDiffSamples == {-300, 0, 500}
EventSamples(kind) ==
    IF kind = "jungle_positions"
    THEN {[lane |-> "Top", x |-> 4000, y |-> 12000],
          [lane |-> "Mid", x |-> 7500, y |-> 7500],
          [lane |-> "Bot", x |-> 11000, y |-> 3000]}
    ELSE IF kind = "gold_updates"
    THEN [timestamp : GoldTimeSamples, gold_difference : GoldDiffSamples]
    ELSE [team : Labels]
MaxOfKind(kind) == IF kind = "gold_updates" THEN MaxGold ELSE MaxEvents

LolFields == {"team", "won", "duration"} \cup EventKinds
NumEvents(ms, kind) == Len(EventsScanned(ms, kind))
IsPlain(m) == LolFields \subseteq DOMAIN m /\ m["won"] /\ m["duration"] = PlainDuration
NoEvents(ms) == \A k \in EventKinds : NumEvents(ms, k) = 0

LolAddMatch(won, duration) ==
    /\ Building
    /\ Len(matches) < MaxMatches
    /\ (won /\ duration = PlainDuration) \/ NoEvents(matches)
    /\ matches' = Append(matches,
           [team |-> Team, won |-> won, duration |-> duration, dragons |-> <<>>,
            heralds |-> <<>>, barons |-> <<>>, gold_updates |-> <<>>,
            jungle_positions |-> <<>>])
    /\ UNCHANGED <<analyzer, out>>
    /\ OtherIdle

LolAddEvent(kind, e) ==
    /\ Building
    /\ matches # <<>>
    /\ \A i \in 1..Len(matches) : IsPlain(matches[i])
    /\ \A k \in EventKinds \ {kind} : NumEvents(matches, k) = 0
    /\ NumEvents(matches, kind) < MaxOfKind(kind)
    /\ matches' = SetLast(matches, [Last(matches) EXCEPT ![kind] = Append(@, e)])
    /\ UNCHANGED <<analyzer, out>>
    /\ OtherIdle

\* a record that lacks a required field
LolDropField(k) ==
    /\ Building
    /\ matches # <<>>
    /\ NoEvents(matches)
    /\ \A i \in 1..Len(matches) : LolFields \subseteq DOMAIN matches[i]
    /\ matches' = SetLast(matches, Drop(Last(matches), k))
    /\ UNCHANGED <<analyzer, out>>
    /\ OtherIdle

LolConstruct ==
    /\ Building
    /\ analyzer' = Constructed("LolAnalyzer", matches)
    /\ UNCHANGED <<matches, out>>
    /\ OtherIdle

LolCall(op, res) ==
    /\ analyzer.constructed
    /\ out' = Call(op, res)
    /\ analyzer' = AfterCall(analyzer, op)
    /\ UNCHANGED matches
    /\ OtherIdle

LolJungle == LolCall("calculate_jungle_proximity", calculate_jungle_proximity(analyzer))
LolObjective == LolCall("calculate_objective_control", calculate_objective_control(analyzer))
LolGold == LolCall("calculate_gold_efficiency", calculate_gold_efficiency(analyzer))
LolComplete == LolCall("get_complete_analysis", LolCompleteAnalysis(analyzer))

NextLol ==
    \/ \E won \in BOOLEAN, duration \in DurationSamples : LolAddMatch(won, duration)
    \/ \E kind \in EventKinds : \E e \in EventSamples(kind) : LolAddEvent(kind, e)
    \/ \E k \in {"won", "duration", "dragons", "gold_updates", "jungle_positions"} :
          LolDropField(k)
    \/ LolConstruct
    \/ LolJungle
    \/ LolObjective
    \/ LolGold
    \/ LolComplete

SpecLol == InitAnalyzer /\ [][NextLol]_vars

(***************************************************************************)
(* Properties of LolAnalyzer (checked under SpecLol).                      *)
(***************************************************************************)
LolOps == {"calculate_jungle_proximity", "calculate_objective_control",
           "calculate_gold_efficiency", "get_complete_analysis"}
LolCalled(op) == analyzer.constructed /\ out.op = op

JungleNeutral(v) ==
    v.top_lane_percent = 0 /\ v.mid_lane_percent = 0 /\ v.bot_lane_percent = 0
ObjectiveNeutral(v) ==
    /\ v.first_dragon_rate = 0 /\ v.overall_dragon_rate = 0
    /\ v.herald_control_rate = 0 /\ v.baron_control_rate = 0
    /\ v.total_dragons = 0 /\ v.team_dragons = 0 /\ v.total_heralds = 0
    /\ v.team_heralds = 0 /\ v.total_barons = 0 /\ v.team_barons = 0
GoldNeutral(v) ==
    /\ v.gold_diff_at_10min = 0 /\ v.gold_diff_at_15min = 0 /\ v.gold_diff_at_20min = 0
    /\ v.gold_growth_rate = 0
    /\ v.samples_at_10 = 0 /\ v.samples_at_15 = 0 /\ v.samples_at_20 = 0

\* C2: a LolAnalyzer built on an empty match list answers every call
\* (get_complete_analysis and the three calculate_* methods) without raising,
\* with team name "Unknown", matches_analyzed 0, win rate 0, average duration 0
\* and every percentage, rate and gold average equal to 0.
C2_LolEmptyListNeutral ==
    (analyzer.constructed /\ analyzer.matches = <<>> /\ out.op \in LolOps) =>
        /\ analyzer.team_name = "Unknown"
        /\ ~out.raised
        /\ LolCalled("calculate_jungle_proximity") => JungleNeutral(out.value)
        /\ LolCalled("calculate_objective_control") => ObjectiveNeutral(out.value)
        /\ LolCalled("calculate_gold_efficiency") => GoldNeutral(out.value)
        /\ LolCalled("get_complete_analysis") =>
              /\ out.value.team_name = "Unknown"
              /\ out.value.matches_analyzed = 0
              /\ out.value.win_rate = 0
              /\ out.value.avg_game_duration_minutes = 0
              /\ JungleNeutral(out.value.jungle_proximity)
              /\ ObjectiveNeutral(out.value.objective_control)
              /\ GoldNeutral(out.value.gold_efficiency)

\* the complete analysis of an empty list has been returned
C2_Witness ==
    /\ LolCalled("get_complete_analysis")
    /\ analyzer.matches = <<>>
    /\ ~out.raised
    /\ out.value.matches_analyzed = 0

\* C4: a match record that lacks a required field (such as "won" or "duration")
\* does not make get_complete_analysis raise; the call returns an analysis of
\* the whole list.
C4_MissingFieldTolerated ==
    (/\ LolCalled("get_complete_analysis")
     /\ \E i \in 1..Len(analyzer.matches) :
            ~(LolFields \subseteq DOMAIN analyzer.matches[i])) =>
        ~out.raised /\ out.value.matches_analyzed = Len(analyzer.matches)

\* the gold updates of the analyzed list, and the sum of the differences at a
\* set of positions
GoldUpdates == EventsScanned(analyzer.matches, "gold_updates")
RECURSIVE SumDiffs(_)
SumDiffs(S) ==
    IF S = {} THEN 0
    ELSE LET i == CHOOSE j \in S : TRUE
         IN  GoldUpdates[i]["gold_difference"] + SumDiffs(S \ {i})
Window(lo, hi) ==
    {i \in 1..Len(GoldUpdates) :
        lo <= GoldUpdates[i]["timestamp"] /\ GoldUpdates[i]["timestamp"] <= hi}
Window10 == Window(540, 660)
Window15 == Window(840, 960)
BothAveragesNonZero ==
    /\ Window10 # {} /\ SumDiffs(Window10) # 0
    /\ Window15 # {} /\ SumDiffs(Window15) # 0

\* C8: when the 10-minute and the 15-minute averages are both non-zero,
\* gold_growth_rate is their per-minute delta (avg15 - avg10) / 5, rounded to a
\* whole number.
C8_GrowthRateIsPerMinuteDelta ==
    (LolCalled("calculate_gold_efficiency") /\ BothAveragesNonZero) =>
        /\ ~out.raised
        /\ out.value.gold_growth_rate =
               RoundHalfEven(
                   SumDiffs(Window15) * Cardinality(Window10)
                       - SumDiffs(Window10) * Cardinality(Window15),
                   5 * Cardinality(Window10) * Cardinality(Window15))

(***************************************************************************)
(* The random module.  The process-wide source is a stream of uniform      *)
(* variates fixed by the seed; rng.tape is the stream the seed in use      *)
(* yields (read cyclically), rng.pos the number of variates drawn since    *)
(* the source was seeded.  A variate u stands for the value u / 100 of     *)
(* random.random().                                                        *)
(***************************************************************************)
UTop == 99
Variates == {0, 6, 50, UTop}
TapeLen == 3
Tapes == [1..TapeLen -> Variates]

U(t, p) == t[(p % Len(t)) + 1]
\* random.random() < percent / 100
Chance(u, percent) == u < percent
\* random.randint(a, b): a for the lowest variate, b for the highest
RandInt(u, a, b) == a + (u * (b - a)) \div UTop
\* random.choice(seq)
Choice(u, seq) == seq[1 + (u * Len(seq)) \div (UTop + 1)]

\* sorted(events, key=lambda e: e["timestamp"]): stable
RECURSIVE InsertByTimestamp(_, _)
InsertByTimestamp(sorted, e) ==
    IF sorted = <<>> THEN <<e>>
    ELSE IF Last(sorted)["timestamp"] <= e["timestamp"] THEN Append(sorted, e)
    ELSE Append(InsertByTimestamp(SubSeq(sorted, 1, Len(sorted) - 1), e), Last(sorted))
RECURSIVE SortedByTimestamp(_)
SortedByTimestamp(events) ==
    IF events = <<>> THEN <<>>
    ELSE InsertByTimestamp(SortedByTimestamp(SubSeq(events, 1, Len(events) - 1)),
                           Last(events))

Min(a, b) == IF a <= b THEN a ELSE b

(***************************************************************************)
(* MockDataGenerator.generate_lol_match_data.  Each piece takes the tape t *)
(* and the position p of its first draw and returns its value v with the   *)
(* position p after its last draw.  The source draws 15..35 (won) or 8..20 *)
(* (lost) kills and 100..200 position samples a match; the model draws     *)
(* 2..MaxKills or 1..MaxKills-1 kills and 1..MaxSamples samples.           *)
(***************************************************************************)
MaxKills == 3
MaxSamples == 2
LOL_MAP_SIZE == 14820

GenKills(t, p, team_name, game_duration, num_kills) ==
    [v |-> [k \in 1..num_kills |->
               [timestamp |-> RandInt(U(t, p + 3 * (k - 1)), 180, game_duration),
                killer |-> team_name,
                victim |-> Enemy,
                x |-> RandInt(U(t, p + 3 * (k - 1) + 1), 1000, LOL_MAP_SIZE - 1000),
                y |-> RandInt(U(t, p + 3 * (k - 1) + 2), 1000, LOL_MAP_SIZE - 1000),
                is_first_blood |-> (k - 1 = 0)]],
     p |-> p + 3 * num_kills]

dragon_spawn_times == <<300, 600, 900, 1200, 1500, 1800, 2100, 2400>>
DragonTypes == <<"Cloud", "Infernal", "Ocean", "Mountain", "Elder">>

RECURSIVE GenDragons(_, _, _, _, _, _, _)
GenDragons(t, p, team_name, won, game_duration, i, dragons) ==
    IF i > Len(dragon_spawn_times) THEN [v |-> dragons, p |-> p]
    ELSE LET spawn_time == dragon_spawn_times[i]
         IN  IF ~(spawn_time < game_duration)
             THEN GenDragons(t, p, team_name, won, game_duration, i + 1, dragons)
             ELSE IF ~Chance(U(t, p), 80)
             THEN GenDragons(t, p + 1, team_name, won, game_duration, i + 1, dragons)
             ELSE LET taken_by_team == Chance(U(t, p + 1), IF won THEN 75 ELSE 35)
                  IN  GenDragons(t, p + 4, team_name, won, game_duration, i + 1,
                          Append(dragons,
                              [timestamp |-> spawn_time + RandInt(U(t, p + 2), 0, 120),
                               team |-> IF taken_by_team THEN team_name ELSE Enemy,
                               dragon_type |-> Choice(U(t, p + 3), DragonTypes),
                               x |-> 9800,
                               y |-> 4200]))

\* num randint(0, 2) captures, each a timestamp in lo..hi and a side
GenCaptures(t, p, team_name, percent, lo, hi) ==
    LET num == RandInt(U(t, p), 0, 2)
    IN  [v |-> [k \in 1..num |->
                   [timestamp |-> RandInt(U(t, p + 1 + 2 * (k - 1)), lo, hi),
                    team |-> IF Chance(U(t, p + 2 + 2 * (k - 1)), percent)
                             THEN team_name ELSE Enemy,
                    x |-> 5200,
                    y |-> 10400]],
         p |-> p + 1 + 2 * num]

GenBarons(t, p, team_name, won, game_duration) ==
    IF game_duration > 1200
    THEN GenCaptures(t, p, team_name, IF won THEN 80 ELSE 20, 1200, game_duration - 60)
    ELSE [v |-> <<>>, p |-> p]

GenHeralds(t, p, team_name, won, game_duration) ==
    IF game_duration > 480
    THEN GenCaptures(t, p, team_name, IF won THEN 70 ELSE 30,
                     480, Min(1185, game_duration))
    ELSE [v |-> <<>>, p |-> p]

\* for minute in range(5, game_duration // 60 + 1, 5)
GenGold(t, p, won, game_duration) ==
    LET n == (game_duration \div 60) \div 5
        base_gold_advantage == IF won THEN 500 ELSE -500
    IN  [v |-> [k \in 1..n |->
                   LET minute == 5 * k
                       variance == RandInt(U(t, p + k - 1), -300, 300)
                       gold_diff == base_gold_advantage + variance + (minute * 50)
                   IN  [timestamp |-> minute * 60,
                        team_gold |-> 15000 + (minute * 300) + gold_diff,
                        enemy_gold |-> 15000 + (minute * 300),
                        gold_difference |-> gold_diff]],
         p |-> p + n]

GenJungle(t, p, game_duration) ==
    LET num_position_samples == RandInt(U(t, p), 1, MaxSamples)
        Sample(q) ==
            LET timestamp == RandInt(U(t, q), 0, game_duration)
                lane_bias == U(t, q + 1)
            IN  IF Chance(lane_bias, 35)
                THEN [timestamp |-> timestamp, x |-> RandInt(U(t, q + 2), 1000, 7000),
                      y |-> RandInt(U(t, q + 3), 10000, 14000), lane |-> "Top"]
                ELSE IF Chance(lane_bias, 70)
                THEN [timestamp |-> timestamp, x |-> RandInt(U(t, q + 2), 5000, 10000),
                      y |-> RandInt(U(t, q + 3), 5000, 10000), lane |-> "Mid"]
                ELSE [timestamp |-> timestamp, x |-> RandInt(U(t, q + 2), 8000, 14000),
                      y |-> RandInt(U(t, q + 3), 1000, 5000), lane |-> "Bot"]
    IN  [v |-> [k \in 1..num_position_samples |-> Sample(p + 1 + 4 * (k - 1))],
         p |-> p + 1 + 4 * num_position_samples]

\* match_date.isoformat(): the clock reading less a number of days
MatchDate(clock, days) == [now |-> clock, minus_days |-> days]

\* one iteration of the loop over match_id; clock is what datetime.now() reads
GenLolMatch(t, p, team_name, match_id, clock) ==
    LET won == Chance(U(t, p), 70)
        game_duration == RandInt(U(t, p + 1), 1500, 2400)
        num_kills == IF won THEN RandInt(U(t, p + 2), 2, MaxKills)
                     ELSE RandInt(U(t, p + 2), 1, MaxKills - 1)
        kills == GenKills(t, p + 3, team_name, game_duration, num_kills)
        dragons == GenDragons(t, kills.p, team_name, won, game_duration, 1, <<>>)
        barons == GenBarons(t, dragons.p, team_name, won, game_duration)
        heralds == GenHeralds(t, barons.p, team_name, won, game_duration)
        gold_updates == GenGold(t, heralds.p, won, game_duration)
        jungle_positions == GenJungle(t, gold_updates.p, game_duration)
    IN  [v |-> [match_id |-> <<"LOL", match_id>>,
                date |-> MatchDate(clock, match_id * 3),
                team |-> team_name,
                opponent |-> <<"Team", match_id>>,
                won |-> won,
                duration |-> game_duration,
                kills |-> SortedByTimestamp(kills.v),
                dragons |-> SortedByTimestamp(dragons.v),
                barons |-> SortedByTimestamp(barons.v),
                heralds |-> SortedByTimestamp(heralds.v),
                gold_updates |-> SortedByTimestamp(gold_updates.v),
                jungle_positions |-> SortedByTimestamp(jungle_positions.v)],
         p |-> jungle_positions.p]

\* for match_id in range(1, num_matches + 1): matches.append(match_data)
RECURSIVE GenLolLoop(_, _, _, _, _, _, _)
GenLolLoop(t, p, team_name, num_matches, clock, match_id, ms) ==
    IF match_id > num_matches THEN [v |-> ms, p |-> p]
    ELSE LET m == GenLolMatch(t, p, team_name, match_id, clock)
         IN  GenLolLoop(t, m.p, team_name, num_matches, clock, match_id + 1,
                        Append(ms, m.v))

\* generate_lol_match_data looping over range(1, num_matches)
generate_lol_match_data_short(t, p, team_name, num_matches, clock) ==
    GenLolLoop(t, p, team_name, num_matches - 1, clock, 1, <<>>)

generate_lol_match_data(t, p, team_name, num_matches, clock) ==
    GenLolLoop(t, p, team_name, num_matches, clock, 1, <<>>)

(***************************************************************************)
(* MockDataGenerator.generate_valorant_match_data, in the same style.      *)
(***************************************************************************)
ValMaps == <<"Ascent", "Bind", "Haven", "Split", "Icebox", "Breeze", "Fracture">>

\* random.choice([randint(800, 1500), randint(2000, 3000), randint(3500, 5000)])
GenLoadout(t, p) ==
    Choice(U(t, p + 3), <<RandInt(U(t, p), 800, 1500),
                          RandInt(U(t, p + 1), 2000, 3000),
                          RandInt(U(t, p + 2), 3500, 5000)>>)

GenSpikeCoords(t, p, spike_site) ==
    IF spike_site = "A"
    THEN [x |-> RandInt(U(t, p), 20, 35), y |-> RandInt(U(t, p + 1), 40, 55)]
    ELSE IF spike_site = "B"
    THEN [x |-> RandInt(U(t, p), 55, 70), y |-> RandInt(U(t, p + 1), 20, 35)]
    ELSE [x |-> RandInt(U(t, p), 40, 55), y |-> RandInt(U(t, p + 1), 60, 75)]

\* one iteration of the loop over round_num
GenRound(t, p, team_name, round_num, team_rounds_won, total_rounds) ==
    LET round_won == U(t, p) * total_rounds < (UTop + 1) * team_rounds_won
        pistol == round_num = 1 \/ round_num = 13
        team_loadout_value == IF pistol THEN 800 ELSE GenLoadout(t, p + 1)
        enemy_loadout_value == IF pistol THEN 800 ELSE GenLoadout(t, p + 5)
        p1 == IF pistol THEN p + 1 ELSE p + 9
        spike_planted == Chance(U(t, p1), 85)
        spike_site == IF spike_planted THEN Choice(U(t, p1 + 1), Sites) ELSE None
        spike_coords == IF spike_planted THEN GenSpikeCoords(t, p1 + 2, spike_site)
                        ELSE None
        p2 == IF spike_planted THEN p1 + 4 ELSE p1 + 1
    IN  [v |-> [round_number |-> round_num,
                winner |-> IF round_won THEN team_name ELSE Enemy,
                team_loadout_value |-> team_loadout_value,
                enemy_loadout_value |-> enemy_loadout_value,
                is_team_eco |-> team_loadout_value < 2000,
                is_enemy_eco |-> enemy_loadout_value < 2000,
                spike_planted |-> spike_planted,
                spike_site |-> spike_site,
                spike_coords |-> spike_coords,
                first_blood_team |-> Choice(U(t, p2), <<team_name, Enemy>>),
                first_blood_location |-> [x |-> RandInt(U(t, p2 + 1), 10, 90),
                                          y |-> RandInt(U(t, p2 + 2), 10, 90)],
                round_duration |-> RandInt(U(t, p2 + 3), 30, 100)],
         p |-> p2 + 4]

RECURSIVE GenRounds(_, _, _, _, _, _, _)
GenRounds(t, p, team_name, round_num, team_rounds_won, total_rounds, rounds) ==
    IF round_num > total_rounds THEN [v |-> rounds, p |-> p]
    ELSE LET r == GenRound(t, p, team_name, round_num, team_rounds_won, total_rounds)
         IN  GenRounds(t, r.p, team_name, round_num + 1, team_rounds_won,
                       total_rounds, Append(rounds, r.v))

\* one iteration of the loop over match_id
GenValMatch(t, p, team_name, match_id, clock) ==
    LET team_rounds_won == IF Chance(U(t, p), 70) THEN RandInt(U(t, p + 1), 13, 15)
                           ELSE RandInt(U(t, p + 1), 8, 12)
        enemy_rounds_won == IF team_rounds_won < 13 THEN 13
                            ELSE RandInt(U(t, p + 2), 8, 12)
        p1 == IF team_rounds_won < 13 THEN p + 2 ELSE p + 3
        total_rounds == team_rounds_won + enemy_rounds_won
        rounds == GenRounds(t, p1, team_name, 1, team_rounds_won, total_rounds, <<>>)
    IN  [v |-> [match_id |-> <<"VAL", match_id>>,
                date |-> MatchDate(clock, match_id * 2),
                team |-> team_name,
                opponent |-> <<"Team", match_id>>,
                team_score |-> team_rounds_won,
                enemy_score |-> enemy_rounds_won,
                won |-> team_rounds_won > enemy_rounds_won,
                map |-> Choice(U(t, rounds.p), ValMaps),
                rounds |-> rounds.v],
         p |-> rounds.p + 1]

RECURSIVE GenValLoop(_, _, _, _, _, _, _)
GenValLoop(t, p, team_name, num_matches, clock, match_id, ms) ==
    IF match_id > num_matches THEN [v |-> ms, p |-> p]
    ELSE LET m == GenValMatch(t, p, team_name, match_id, clock)
         IN  GenValLoop(t, m.p, team_name, num_matches, clock, match_id + 1,
                        Append(ms, m.v))

generate_valorant_match_data(t, p, team_name, num_matches, clock) ==
    GenValLoop(t, p, team_name, num_matches, clock, 1, <<>>)

(***************************************************************************)
(* The generators as a state machine: a caller seeds the random source,    *)
(* lets the clock advance and calls the two generators; calls records, in  *)
(* order, every call with the state of the source at entry and the list    *)
(* returned.                                                               *)
(***************************************************************************)
MaxCalls == 2
MaxNow == 1
NumMatchesSamples == {-1, 0, 1, 2}

InitGen ==
    /\ matches = <<>>
    /\ analyzer = NoAnalyzer
    /\ out = NoCall
    /\ rng \in [tape : Tapes, pos : {0}]
    /\ now = 0
    /\ calls = <<>>
    /\ env = IdleEnv
    /\ loader = NoLoader

\* random.seed(s) with the seed already in use: the stream starts over
Reseed ==
    /\ rng.pos # 0
    /\ rng' = [rng EXCEPT !.pos = 0]
    /\ UNCHANGED <<matches, analyzer, out, now, calls, env, loader>>

\* datetime.now() reads later
Tick ==
    /\ now < MaxNow
    /\ now' = now + 1
    /\ UNCHANGED <<matches, analyzer, out, rng, calls, env, loader>>

GenCall(fn, num_matches, res) ==
    /\ matches' = res.v
    /\ calls' = Append(calls, [fn |-> fn, team_name |-> Team,
                               num_matches |-> num_matches,
                               pos |-> rng.pos, result |-> res.v])
    /\ rng' = [rng EXCEPT !.pos = res.p % Len(rng.tape)]
    /\ UNCHANGED <<analyzer, out, now, env, loader>>

GenerateLol(num_matches) ==
    /\ Len(calls) < MaxCalls
    /\ \E res \in {generate_lol_match_data(rng.tape, rng.pos, Team, num_matches, now)} :
           GenCall("generate_lol_match_data", num_matches, res)

GenerateVal(num_matches) ==
    /\ Len(calls) < MaxCalls
    /\ \E res \in {generate_valorant_match_data(rng.tape, rng.pos, Team, num_matches, now)} :
           GenCall("generate_valorant_match_data", num_matches, res)

NextGen ==
    \/ Reseed
    \/ Tick
    \/ \E n \in NumMatchesSamples : GenerateLol(n)
    \/ \E n \in NumMatchesSamples : GenerateVal(n)

SpecGen == InitGen /\ [][NextGen]_vars

LolCalls == {i \in 1..Len(calls) : calls[i].fn = "generate_lol_match_data"}
ValCalls == {i \in 1..Len(calls) : calls[i].fn = "generate_valorant_match_data"}
SeqRange(s) == {s[i] : i \in 1..Len(s)}
GeneratedLol == UNION {SeqRange(calls[i].result) : i \in LolCalls}
GeneratedVal == UNION {SeqRange(calls[i].result) : i \in ValCalls}

\* C5: every nested event of every generated LoL match has a timestamp in
\* 0..duration.  Violated: a dragon taken at the last spawn before the end of
\* the game is stamped spawn_time + randint(0, 120), past the duration.
C5_EventTimestampsWithinDuration ==
    \A m \in GeneratedLol :
        \A kind \in EventKinds \cup {"kills"} :
            \A e \in SeqRange(m[kind]) :
                0 <= e["timestamp"] /\ e["timestamp"] <= m["duration"]

\* C6: in every generated VALORANT match the number of rounds won by the team
\* is team_score and the number won by the enemy is enemy_score.  Violated:
\* each round's winner is drawn on its own.
C6_RoundWinnersMatchScore ==
    \A m \in GeneratedVal :
        /\ CountIf(m["rounds"], LAMBDA r : r["winner"] = m["team"]) = m["team_score"]
        /\ CountIf(m["rounds"], LAMBDA r : r["winner"] = Enemy) = m["enemy_score"]

\* C7: two calls of the same generator with the same arguments, each made
\* right after seeding the source with the same value, return equal lists.
\* Violated: each match carries a date computed from the clock.
C7_SeededCallsAreIdentical ==
    \A i, j \in 1..Len(calls) :
        ( /\ calls[i].fn = calls[j].fn
          /\ calls[i].team_name = calls[j].team_name
          /\ calls[i].num_matches = calls[j].num_matches
          /\ calls[i].pos = 0 /\ calls[j].pos = 0 )
        => calls[i].result = calls[j].result

(***************************************************************************)
(* agent.py: generate_scouting_report.  env.vars maps the credential       *)
(* variables to None (unset), "" or a key; env.packages is the set of      *)
(* optional client packages that can be imported; env.network tells        *)
(* whether a call to the provider's service succeeds.  A returned str is   *)
(* modelled by the name of the text returned.                              *)
(***************************************************************************)
Providers == {"mock", "openai", "gemini", "openrouter"}
GameTypes == {"lol", "valorant"}
CredentialVars == {"OPENAI_API_KEY", "GOOGLE_API_KEY", "OPENROUTER_API_KEY"}
KeyValues == {None, "", "key"}
Packages == {"openai", "google.generativeai", "requests"}

\* os.getenv(name) is falsy when the variable is unset or empty
Truthy(v) == v # None /\ v # ""
getenv(e, name) == e.vars[name]

MockReport(game_type) ==
    IF game_type = "lol" THEN "mock report: lol" ELSE "mock report: valorant"
ReportTexts ==
    {MockReport(g) : g \in GameTypes}
        \cup {"LLM report", "ERROR: key not found", "ERROR: package not installed",
              "ERROR calling provider"}

\* json.dumps(stats_dict) and the f-string: a str for every analysis result
build_scout_prompt(stats_dict, game_type) ==
    Returned(IF game_type = "lol" THEN "prompt: lol" ELSE "prompt: valorant")

\* the template report reads stats_dict with .get and defaults
generate_mock_report(stats_dict, game_type) == Returned(MockReport(game_type))

\* the body shared by _call_openai, _call_gemini and _call_openrouter with the
\* except clauses removed: any failure of the service call propagates
CallProviderUnguarded(e, package, key_var, prompt) ==
    IF package \notin e.packages THEN Returned("ERROR: package not installed")
    ELSE IF ~Truthy(getenv(e, key_var)) THEN Returned("ERROR: key not found")
    ELSE IF ~e.network THEN Raised("ConnectionError")
    ELSE Returned("LLM report")

\* try: import the client; check the key; call the service
\* except ImportError / except Exception: return a diagnostic
CallProvider(e, package, key_var, prompt) ==
    IF package \notin e.packages THEN Returned("ERROR: package not installed")
    ELSE IF ~Truthy(getenv(e, key_var)) THEN Returned("ERROR: key not found")
    ELSE IF ~e.network THEN Returned("ERROR calling provider")
    ELSE Returned("LLM report")

call_openai(e, prompt) == CallProvider(e, "openai", "OPENAI_API_KEY", prompt)
call_gemini(e, prompt) == CallProvider(e, "google.generativeai", "GOOGLE_API_KEY", prompt)
call_openrouter(e, prompt) == CallProvider(e, "requests", "OPENROUTER_API_KEY", prompt)

\* a dispatch that takes the template only for the provider "mock"
generate_scouting_report_by_provider(e, stats_dict, game_type, llm_provider) ==
    LET prompt == build_scout_prompt(stats_dict, game_type)
    IN  IF prompt.raised THEN prompt
        ELSE IF llm_provider = "mock"
        THEN generate_mock_report(stats_dict, game_type)
        ELSE IF llm_provider = "openai" THEN call_openai(e, prompt.value)
        ELSE IF llm_provider = "gemini" THEN call_gemini(e, prompt.value)
        ELSE IF llm_provider = "openrouter" THEN call_openrouter(e, prompt.value)
        ELSE Raised("ValueError")

generate_scouting_report(e, stats_dict, game_type, llm_provider) ==
    LET prompt == build_scout_prompt(stats_dict, game_type)
    IN  IF prompt.raised THEN prompt
        ELSE IF llm_provider = "mock" \/ ~Truthy(getenv(e, "OPENAI_API_KEY"))
        THEN generate_mock_report(stats_dict, game_type)
        ELSE IF llm_provider = "openai" THEN call_openai(e, prompt.value)
        ELSE IF llm_provider = "gemini" THEN call_gemini(e, prompt.value)
        ELSE IF llm_provider = "openrouter" THEN call_openrouter(e, prompt.value)
        ELSE Raised("ValueError")

(***************************************************************************)
(* The caller of the report producer: the environment is any combination   *)
(* of credentials, packages and network state; the caller sets credential  *)
(* variables (main.py does from the sidebar) and asks for reports.         *)
(***************************************************************************)
ProviderSamples == Providers \cup {"llama"}
Environments == [vars : [CredentialVars -> KeyValues],
                 packages : SUBSET Packages,
                 network : BOOLEAN]

\* the analysis handed over: that of an empty match list of the game
StatsSample(game_type) ==
    IF game_type = "lol" THEN [team_name |-> "Unknown", matches_analyzed |-> 0]
    ELSE [team_name |-> "Unknown", matches_analyzed |-> 0, total_rounds_played |-> 0]

InitAgent ==
    /\ matches = <<>>
    /\ analyzer = NoAnalyzer
    /\ out = NoCall
    /\ rng = IdleRng
    /\ now = 0
    /\ calls = <<>>
    /\ env \in Environments
    /\ loader = NoLoader

\* os.environ[name] = api_key
Putenv(name, value) ==
    /\ env.vars[name] # value
    /\ env' = [env EXCEPT !.vars[name] = value]
    /\ UNCHANGED <<matches, analyzer, out, rng, now, calls, loader>>

GenerateReport(game_type, llm_provider) ==
    /\ out' = [op |-> "generate_scouting_report", game_type |-> game_type,
               llm_provider |-> llm_provider, environ |-> env]
              @@ generate_scouting_report(env, StatsSample(game_type),
                                          game_type, llm_provider)
    /\ UNCHANGED <<matches, analyzer, rng, now, calls, env, loader>>

NextAgent ==
    \/ \E name \in CredentialVars : Putenv(name, "key")
    \/ \E g \in GameTypes, p \in ProviderSamples : GenerateReport(g, p)

SpecAgent == InitAgent /\ [][NextAgent]_vars

\* C9: for every provider among mock, openai, gemini and openrouter, whatever
\* the credentials, the importable packages and the state of the network,
\* generate_scouting_report does not raise and returns a string.
C9_ReportNeverRaises ==
    (out.op = "generate_scouting_report" /\ out.llm_provider \in Providers)
        => (~out.raised /\ out.value \in ReportTexts)

\* a report was asked of a remote provider whose key is set and whose package
\* is importable while the network is down
C9_Witness ==
    /\ out.op = "generate_scouting_report"
    /\ out.llm_provider = "openrouter"
    /\ Truthy(env.vars["OPENAI_API_KEY"])
    /\ Truthy(env.vars["OPENROUTER_API_KEY"])
    /\ "requests" \in env.packages
    /\ ~env.network
    /\ ~out.raised
    /\ out.value = "ERROR calling provider"

(***************************************************************************)
(* loaders.py: GridDataLoader.  An optional value is a sequence of length  *)
(* at most one.  The answer of the statistics feed is an input of the      *)
(* load: unreachable (requests raises), an "errors" answer, no             *)
(* teamStatistics, or statistics with a game count and the wins entries.   *)
(***************************************************************************)
ApiKeySamples == {None, "", "key"}
TeamNameSamples == {Team, "TeamID:83"}
WinEntrySamples == {<<>>,
                    <<[value |-> TRUE, percentage |-> 0]>>,
                    <<[value |-> FALSE, percentage |-> 40],
                      [value |-> TRUE, percentage |-> 60]>>,
                    <<[value |-> TRUE, percentage |-> 100]>>}
FeedSamples ==
    {[kind |-> "unreachable"], [kind |-> "errors"], [kind |-> "empty"]}
        \cup {[kind |-> "stats", count |-> 0, wins |-> <<>>]}
        \cup [kind : {"stats"}, count : {7}, wins : WinEntrySamples]

\* team_name.startswith("TeamID:") and team_name.replace("TeamID:", "")
HasTeamIdForm(team_name) == team_name = "TeamID:83"
TeamIdOf(team_name) == "83"
\* f"Team {team_id}"
DisplayName(team_id) == "Team 83"

\* GridDataLoader.__init__
GridDataLoader(api_key, use_mock) ==
    IF ~use_mock /\ ~Truthy(api_key) THEN Raised("ValueError")
    ELSE Returned([constructed |-> TRUE, api_key |-> api_key, use_mock |-> use_mock])

\* mock_data.get_lol_mock_data / get_valorant_mock_data
get_mock_data(game_type, t, p, team_name, num_matches, clock) ==
    IF game_type = "lol"
    THEN generate_lol_match_data(t, p, team_name, num_matches, clock)
    ELSE generate_valorant_match_data(t, p, team_name, num_matches, clock)

\* _fetch_team_statistics with the test on the game count dropped
fetch_team_statistics_any_count(self, team_id, game_type, feed) ==
    IF feed.kind = "stats" THEN <<feed>> ELSE <<>>

\* _fetch_team_statistics: None unless the feed answers statistics of a
\* positive number of games; every exception is caught
fetch_team_statistics(self, team_id, game_type, feed) ==
    IF feed.kind = "stats" /\ feed.count > 0 THEN <<feed>> ELSE <<>>

\* next((w["percentage"] for w in wins_data if w["value"] == True), 50.0)
RECURSIVE WinPercentage(_)
WinPercentage(wins_data) ==
    IF wins_data = <<>> THEN 50
    ELSE IF Head(wins_data).value THEN Head(wins_data).percentage
    ELSE WinPercentage(Tail(wins_data))

(***************************************************************************)
(* int(n * (pct / 100.0)) in binary64 arithmetic, for whole n and pct.  A  *)
(* positive double is kept as (top * 2^52 + fraction) * 2^-(52 + s), its   *)
(* 52 fraction bits in four limbs of 13 bits, most significant first; both *)
(* the quotient and the product are rounded to 53 significant bits, ties   *)
(* to even.                                                                *)
(***************************************************************************)
LimbBase == 2^13

\* the next k limbs of r / 100 and the remainder left after them
RECURSIVE FractionLimbs(_, _)
FractionLimbs(r, k) ==
    IF k = 0 THEN [limbs |-> <<>>, r |-> r]
    ELSE LET rest == FractionLimbs((r * LimbBase) % 100, k - 1)
         IN  [limbs |-> <<(r * LimbBase) \div 100>> \o rest.limbs, r |-> rest.r]

\* limbs brought back below LimbBase after c is added to the last one
RECURSIVE Carry(_, _)
Carry(limbs, c) ==
    IF limbs = <<>> THEN [limbs |-> <<>>, c |-> c]
    ELSE LET v == limbs[Len(limbs)] + c
             rest == Carry(SubSeq(limbs, 1, Len(limbs) - 1), v \div LimbBase)
         IN  [limbs |-> Append(rest.limbs, v % LimbBase), c |-> rest.c]

BitLength(x) == CHOOSE b \in 0..20 : x < 2^b /\ (b = 0 \/ 2^(b - 1) <= x)

\* pct / 100.0, 0 < pct <= 100
Binary64Div100(pct) ==
    LET s == CHOOSE k \in 0..7 : pct * 2^k >= 100 /\ (k = 0 \/ pct * 2^(k - 1) < 100)
        f == FractionLimbs((pct * 2^s) % 100, 4)
        up == 2 * f.r > 100 \/ (2 * f.r = 100 /\ f.limbs[4] % 2 = 1)
        c == Carry(f.limbs, IF up THEN 1 ELSE 0)
    IN  [s |-> s, top |-> ((pct * 2^s) \div 100) + c.c, limbs |-> c.limbs]

\* n * q, 0 < n < 128
Binary64TimesInt(n, q) ==
    LET exact == Carry([i \in 1..4 |-> q.limbs[i] * n], 0)
        top == q.top * n + exact.c
        k == BitLength(top) - 1
        g == exact.limbs[4] % 2^k
        keep == exact.limbs[4] - g
        up == k > 0 /\ (2 * g > 2^k \/ (2 * g = 2^k /\ (keep \div 2^k) % 2 = 1))
        rounded == Carry([exact.limbs EXCEPT ![4] = keep], IF up THEN 2^k ELSE 0)
    IN  [s |-> q.s, top |-> top + rounded.c, limbs |-> rounded.limbs]

\* int(x), x >= 0
Binary64Int(x) == x.top \div 2^(x.s)

\* int(n * (pct / 100.0))
IntOfShare(n, pct) ==
    IF n = 0 \/ pct = 0 THEN 0 ELSE Binary64Int(Binary64TimesInt(n, Binary64Div100(pct)))

\* the same share in exact arithmetic
IntOfShareExact(n, pct) == (n * pct) \div 100

Swap(x, i, j) == [x EXCEPT ![i] = x[j], ![j] = x[i]]

\* random.shuffle(x): for i in reversed(range(1, len(x))): j = randbelow(i + 1)
RECURSIVE Shuffle(_, _, _, _)
Shuffle(t, p, x, i) ==
    IF i < 1 THEN [v |-> x, p |-> p]
    ELSE LET j == (U(t, p) * (i + 1)) \div (UTop + 1)
         IN  Shuffle(t, p + 1, Swap(x, i + 1, j + 1), i - 1)

\* _transform_stats_to_matches
transform_stats_to_matches(stats_data, team_name, num_matches, game_type, t, p, clock) ==
    LET real_win_pct == WinPercentage(stats_data.wins)
        generated == get_mock_data(game_type, t, p, team_name, num_matches, clock)
        num_wins_expected == IntOfShare(Len(generated.v), real_win_pct)
        relabelled == [i \in 1..Len(generated.v) |->
                          [generated.v[i] EXCEPT !["won"] = (i <= num_wins_expected)]]
    IN  Shuffle(t, generated.p, relabelled, Len(relabelled) - 1)

\* _fetch_from_grid_api; the result carries raised, and v and p when it returns
fetch_from_grid_api(self, team_name, num_matches, game_type, feed, t, p, clock) ==
    IF ~Truthy(self.api_key) THEN Raised("ValueError")
    ELSE IF ~HasTeamIdForm(team_name)
    THEN [raised |-> FALSE, path |-> "fallback"]
             @@ get_mock_data(game_type, t, p, team_name, num_matches, clock)
    ELSE LET team_id == TeamIdOf(team_name)
             stats_data == fetch_team_statistics(self, team_id, game_type, feed)
         IN  IF stats_data = <<>>
             THEN [raised |-> FALSE, path |-> "fallback"]
                      @@ get_mock_data(game_type, t, p, team_name, num_matches, clock)
             ELSE [raised |-> FALSE, path |-> "live"]
                      @@ transform_stats_to_matches(stats_data[1], DisplayName(team_id),
                             num_matches, game_type, t, p, clock)

\* load_lol_matches (game_type "lol") and load_valorant_matches ("valorant")
load_matches(self, game_type, team_name, num_matches, feed, t, p, clock) ==
    IF self.use_mock
    THEN [raised |-> FALSE, path |-> "mock"]
             @@ get_mock_data(game_type, t, p, team_name, num_matches, clock)
    ELSE fetch_from_grid_api(self, team_name, num_matches, game_type, feed, t, p, clock)

(***************************************************************************)
(* The users of the loader: a script that constructs a GridDataLoader and  *)
(* loads matches, and the dashboard's Generate handler, which picks the    *)
(* loader from the sidebar's live toggle and key and loads the matches     *)
(* inside its try block (main.py continues with analysis and rendering,    *)
(* which read the loaded list).  The slider's 5..20 matches are the        *)
(* positive values of NumMatchesSamples.                                   *)
(***************************************************************************)
MaxLoads == 1
GameTitles == {"League of Legends", "VALORANT"}
GameTypeOf(title) == IF title = "League of Legends" THEN "lol" ELSE "valorant"
SliderSamples == {n \in NumMatchesSamples : n > 0}

InitLoader ==
    /\ matches = <<>>
    /\ analyzer = NoAnalyzer
    /\ out = NoCall
    /\ rng \in [tape : Tapes, pos : {0}]
    /\ now = 0
    /\ calls = <<>>
    /\ env = IdleEnv
    /\ loader = NoLoader

\* loader = GridDataLoader(api_key=..., use_mock=...)
NewLoader(api_key, use_mock) ==
    LET res == GridDataLoader(api_key, use_mock)
    IN  /\ ~loader.constructed
        /\ out' = [op |-> "GridDataLoader", api_key |-> api_key,
                   use_mock |-> use_mock, raised |-> res.raised]
        /\ loader' = IF res.raised THEN loader ELSE res.value
        /\ UNCHANGED <<matches, analyzer, rng, now, calls, env>>

LoadFn(game_type) == IF game_type = "lol" THEN "load_lol_matches"
                     ELSE "load_valorant_matches"

\* the effects of res, the outcome of load_matches, on the match list, the
\* record of the calls that returned a list and the random source
Loaded(game_type, team_name, num_matches, res) ==
    /\ matches' = IF res.raised THEN matches ELSE res.v
    /\ calls' = IF res.raised THEN calls
                ELSE Append(calls, [fn |-> LoadFn(game_type), team_name |-> team_name,
                                    num_matches |-> num_matches, pos |-> rng.pos,
                                    result |-> res.v])
    /\ rng' = IF res.raised THEN rng ELSE [rng EXCEPT !.pos = res.p % Len(rng.tape)]
    /\ UNCHANGED <<analyzer, now, env>>

\* matches = loader.load_lol_matches(team_name, num_matches), respectively
\* load_valorant_matches; a mock loader does not consult the feed
Load(game_type, team_name, num_matches, feed) ==
    /\ loader.constructed
    /\ Len(calls) < MaxLoads
    /\ loader.use_mock => feed = [kind |-> "unreachable"]
    /\ \E res \in {load_matches(loader, game_type, team_name, num_matches, feed,
                                 rng.tape, rng.pos, now)} :
        /\ out' = [op |-> LoadFn(game_type), team_name |-> team_name,
                   num_matches |-> num_matches, feed |-> feed, pos |-> rng.pos,
                   raised |-> res.raised,
                   path |-> IF res.raised THEN None ELSE res.path]
        /\ Loaded(game_type, team_name, num_matches, res)
        /\ UNCHANGED loader

LoadLol(team_name, num_matches, feed) == Load("lol", team_name, num_matches, feed)
LoadVal(team_name, num_matches, feed) == Load("valorant", team_name, num_matches, feed)

\* main.py's choice of loader with the condition on the key dropped
SelectLoaderByToggle(use_live_api, grid_api_key) ==
    IF use_live_api THEN GridDataLoader(grid_api_key, FALSE)
    ELSE GridDataLoader(None, TRUE)

\* if use_live_api and grid_api_key: GridDataLoader(api_key=grid_api_key,
\* use_mock=False) else: GridDataLoader(use_mock=True)
SelectLoader(use_live_api, grid_api_key) ==
    IF use_live_api /\ Truthy(grid_api_key) THEN GridDataLoader(grid_api_key, FALSE)
    ELSE GridDataLoader(None, TRUE)

\* the Generate button: the sidebar leaves grid_api_key None unless the live
\* toggle is on, and team_name is the TeamID form only under the toggle; an
\* exception ends in the handler's except clause, an empty list in st.stop().
\* The dashboard is a process of its own: no script has run in it.
DashboardGenerate(use_live_api, grid_api_key, title, team_name, num_matches, feed) ==
    /\ out = NoCall
    /\ Len(calls) < MaxLoads
    /\ (grid_api_key = None) <=> ~use_live_api
    /\ HasTeamIdForm(team_name) => use_live_api
    /\ (~use_live_api \/ ~Truthy(grid_api_key)) => feed = [kind |-> "unreachable"]
    /\ \E game_type \in {GameTypeOf(title)},
          sel \in {SelectLoader(use_live_api, grid_api_key)} :
       \E res \in {IF sel.raised THEN sel
                   ELSE load_matches(sel.value, game_type, team_name, num_matches,
                                     feed, rng.tape, rng.pos, now)} :
        /\ loader' = IF sel.raised THEN loader ELSE sel.value
        /\ out' = [op |-> "dashboard", use_live_api |-> use_live_api,
                   grid_api_key |-> grid_api_key, game_type |-> game_type,
                   team_name |-> team_name, num_matches |-> num_matches,
                   feed |-> feed, pos |-> rng.pos, raised |-> FALSE,
                   path |-> IF res.raised THEN None ELSE res.path,
                   outcome |-> IF res.raised THEN "error"
                               ELSE IF res.v = <<>> THEN "no data" ELSE "loaded"]
        /\ Loaded(game_type, team_name, num_matches, res)

NextLoader ==
    \/ \E k \in ApiKeySamples, m \in BOOLEAN : NewLoader(k, m)
    \/ \E tn \in TeamNameSamples, n \in NumMatchesSamples, f \in FeedSamples :
           LoadLol(tn, n, f)
    \/ \E tn \in TeamNameSamples, n \in NumMatchesSamples, f \in FeedSamples :
           LoadVal(tn, n, f)
    \/ \E live \in BOOLEAN, k \in ApiKeySamples, g \in GameTitles,
          tn \in TeamNameSamples, n \in SliderSamples, f \in FeedSamples :
           DashboardGenerate(live, k, g, tn, n, f)

SpecLoader == InitLoader /\ [][NextLoader]_vars

\* True when the last call loaded exactly what the generator of the game
\* returns for the team name and the number of matches asked
SyntheticLoaded ==
    /\ calls # <<>>
    /\ matches = Last(calls).result
    /\ matches = get_mock_data(out.game_type, rng.tape, out.pos, out.team_name,
                               out.num_matches, now).v

\* C10 as stated: asking for the live feed without a key, be it by
\* constructing GridDataLoader(use_mock=False) or by the dashboard's toggle
\* with an empty key, raises nothing and ends with synthetic data loaded.
C10_NoCredentialsFallsBack ==
    /\ (out.op = "GridDataLoader" /\ ~out.use_mock /\ ~Truthy(out.api_key))
           => ~out.raised
    /\ (out.op = "dashboard" /\ out.use_live_api /\ ~Truthy(out.grid_api_key))
           => (out.outcome = "loaded" /\ out.path = "mock" /\ SyntheticLoaded)

\* C10 amended: through the dashboard's live toggle with an empty key the
\* handler takes a mock loader and ends with the generator's matches loaded;
\* constructing GridDataLoader with use_mock false and no key raises.
C10_DashboardFallsBack ==
    /\ (out.op = "GridDataLoader" /\ ~out.use_mock /\ ~Truthy(out.api_key))
           => out.raised
    /\ (out.op = "dashboard" /\ out.use_live_api /\ ~Truthy(out.grid_api_key))
           => ( /\ out.outcome = "loaded"
                /\ out.path = "mock"
                /\ loader.constructed /\ loader.use_mock
                /\ SyntheticLoaded )

C10_Witness ==
    /\ out.op = "dashboard"
    /\ out.use_live_api
    /\ out.grid_api_key = ""
    /\ out.outcome = "loaded"
    /\ Len(matches) = 2

(***************************************************************************)
(* Properties of GridDataLoader on the live path (checked under            *)
(* SpecLoader).                                                            *)
(***************************************************************************)
LoadOps == {"load_lol_matches", "load_valorant_matches"}
LoadedGame == IF out.op = "load_lol_matches" THEN "lol" ELSE "valorant"
LiveLoad == out.op \in LoadOps /\ ~loader.use_mock /\ Truthy(loader.api_key)
\* the statistics fetch fails, reports errors, raises or reports no game
FetchFailed(feed) == feed.kind # "stats" \/ feed.count = 0

\* C11: a load by a loader with use_mock false and a key returns a list and
\* raises nothing; when the team name lacks the TeamID form or the statistics
\* fetch fails, the list is what the generator of the game returns for the
\* same team name and number of matches.
C11_LiveLoadFallsBack ==
    LiveLoad =>
        /\ ~out.raised
        /\ matches = Last(calls).result
        /\ (~HasTeamIdForm(out.team_name) \/ FetchFailed(out.feed))
               => /\ out.path = "fallback"
                  /\ matches = get_mock_data(LoadedGame, rng.tape, out.pos,
                                             out.team_name, out.num_matches, now).v

\* a load for a team id whose statistics report no game fell back to two
\* generated matches
C11_Witness ==
    /\ LiveLoad
    /\ HasTeamIdForm(out.team_name)
    /\ out.feed.kind = "stats" /\ out.feed.count = 0
    /\ out.path = "fallback"
    /\ Len(matches) = 2

(***************************************************************************)
(* Properties of the generators' result sizes (checked under SpecGen).     *)
(***************************************************************************)
GeneratorFns == {"generate_lol_match_data", "generate_valorant_match_data"}
GeneratorCalls == {i \in 1..Len(calls) : calls[i].fn \in GeneratorFns}

\* C12: each generator returns exactly num_matches records when num_matches
\* is positive and an empty list when it is zero or negative.
C12_GeneratedCount ==
    \A i \in GeneratorCalls :
        Len(calls[i].result) = IF calls[i].num_matches > 0 THEN calls[i].num_matches
                               ELSE 0

\* one generator was asked for two matches, the other for a negative number
C12_Witness ==
    /\ Len(calls) = 2
    /\ calls[1].fn = "generate_lol_match_data"
    /\ calls[1].num_matches = 2 /\ Len(calls[1].result) = 2
    /\ calls[2].fn = "generate_valorant_match_data"
    /\ calls[2].num_matches < 0 /\ calls[2].result = <<>>

(***************************************************************************)
(* Both aggregators in one state machine: the caller builds a list of one  *)
(* game's matches and uses that game's analyzer on it.                     *)
(***************************************************************************)
IsValList == \A i \in 1..Len(matches) : DOMAIN matches[i] \subseteq ValFields
IsLolList == \A i \in 1..Len(matches) : ~(DOMAIN matches[i] \subseteq ValFields)
IsOfClass(cls) == analyzer.constructed => analyzer.class = cls

NextAnalyzers ==
    \/ IsValList /\ IsOfClass("ValorantAnalyzer") /\ NextVal
    \/ IsLolList /\ IsOfClass("LolAnalyzer") /\ NextLol

SpecAnalyzers == InitAnalyzer /\ [][NextAnalyzers]_vars

\* the outcome of method op of an analyzer whose state is self
MethodOutcome(op, self) ==
    CASE op = "calculate_opening_duel_winrate" -> calculate_opening_duel_winrate(self)
      [] op = "calculate_site_bias" -> calculate_site_bias(self)
      [] op = "calculate_eco_conversion" -> calculate_eco_conversion(self)
      [] op = "calculate_jungle_proximity" -> calculate_jungle_proximity(self)
      [] op = "calculate_objective_control" -> calculate_objective_control(self)
      [] op = "calculate_gold_efficiency" -> calculate_gold_efficiency(self)
      [] op = "get_complete_analysis" ->
            IF self.class = "LolAnalyzer" THEN LolCompleteAnalysis(self)
            ELSE ValorantCompleteAnalysis(self)

LastGenerated(fn) == calls # <<>> /\ calls[Len(calls)].fn = fn

\* the list in hand has not been handed to an analyzer yet
NotYetAnalyzed == IF analyzer.constructed THEN analyzer.matches # matches ELSE TRUE

Analyze(cls, res) ==
    /\ analyzer' = Constructed(cls, matches)
    /\ out' = Call("get_complete_analysis", res)
    /\ UNCHANGED <<matches, rng, now, calls, env, loader>>

AnalyzeGeneratedVal ==
    /\ LastGenerated("generate_valorant_match_data")
    /\ NotYetAnalyzed
    /\ \E res \in {ValorantCompleteAnalysis(Constructed("ValorantAnalyzer", matches))} :
           Analyze("ValorantAnalyzer", res)

AnalyzeGeneratedLol ==
    /\ LastGenerated("generate_lol_match_data")
    /\ NotYetAnalyzed
    /\ \E res \in {LolCompleteAnalysis(Constructed("LolAnalyzer", matches))} :
           Analyze("LolAnalyzer", res)

NextPipeline ==
    \/ NextGen
    \/ AnalyzeGeneratedVal
    \/ AnalyzeGeneratedLol

SpecPipeline == InitGen /\ [][NextPipeline]_vars

\* the complete analysis of a generated VALORANT list has been asked
AnalyzedVal ==
    /\ analyzer.constructed
    /\ analyzer.class = "ValorantAnalyzer"
    /\ out.op = "get_complete_analysis"

\* the counts the claim relates, in a returned complete analysis v of list ms
CountsAgree(v, ms) ==
    /\ v.matches_analyzed = Len(ms)
    /\ v.total_rounds_played = SumLen(ms, "rounds")
    /\ v.total_rounds_played = v.opening_duel_stats.total_rounds
    /\ v.total_rounds_played = v.economy_stats.eco_rounds_played
                                 + v.economy_stats.force_rounds_played
                                 + v.economy_stats.full_buy_rounds_played

\* C14: the complete analysis of a generated VALORANT list of N matches
\* reports matches_analyzed = N and total_rounds_played equal to the number
\* of round records, to opening_duel_stats.total_rounds and to the sum of
\* the three economy buckets.  Violated: for a generated list without a spike
\* plant (N = 0, or no plant drawn) the call raises and reports nothing.
C14_GeneratedCountsAgree ==
    AnalyzedVal => ~out.raised /\ CountsAgree(out.value, analyzer.matches)

\* the counts agree in every complete analysis that returned
C14_CountsAgreeWhenReturned ==
    (AnalyzedVal /\ ~out.raised) => CountsAgree(out.value, analyzer.matches)

C14_ReturnedForTwoMatches ==
    AnalyzedVal /\ ~out.raised /\ Len(analyzer.matches) = 2

(***************************************************************************)
(* LolAnalyzer.calculate_objective_control on lists of whole matches: the  *)
(* caller appends up to MaxScenarioMatches matches, each won or lost and   *)
(* with no dragon, one dragon of the team, or an enemy dragon followed by  *)
(* one of the team, then constructs the analyzer and asks the metric.      *)
(***************************************************************************)
MaxScenarioMatches == 5
DragonSamples == {<<>>, <<[team |-> Team]>>, <<[team |-> Enemy], [team |-> Team]>>}

AddDragonMatch(won, dragons) ==
    /\ Building
    /\ Len(matches) < MaxScenarioMatches
    /\ matches' = Append(matches,
           [team |-> Team, won |-> won, duration |-> PlainDuration,
            dragons |-> dragons, heralds |-> <<>>, barons |-> <<>>,
            gold_updates |-> <<>>, jungle_positions |-> <<>>])
    /\ UNCHANGED <<analyzer, out>>
    /\ OtherIdle

NextDragons ==
    \/ \E won \in BOOLEAN, dragons \in DragonSamples : AddDragonMatch(won, dragons)
    \/ LolConstruct
    \/ LolObjective

SpecDragons == InitAnalyzer /\ [][NextDragons]_vars

\* the matches of ms that list a dragon, and those whose first listed dragon is team's
WithDragons(ms) == {i \in 1..Len(ms) : Get(ms[i], "dragons", <<>>) # <<>>}
TeamFirstDragon(ms, team) == {i \in WithDragons(ms) : ms[i]["dragons"][1]["team"] = team}
Wins(ms) == {i \in 1..Len(ms) : ms[i]["won"]}

\* C15: when some match lists a dragon, first_dragon_rate is 100 x (matches
\* whose first listed dragon is the team's) / (matches listing a dragon),
\* rounded to one decimal (here in tenths of a percent); later dragons of a
\* match do not count.
C15_FirstDragonRate ==
    (LolCalled("calculate_objective_control") /\ WithDragons(analyzer.matches) # {}) =>
        /\ ~out.raised
        /\ out.value.first_dragon_rate =
               RoundHalfEven(
                   1000 * Cardinality(TeamFirstDragon(analyzer.matches, analyzer.team_name)),
                   Cardinality(WithDragons(analyzer.matches)))

\* the scenario: 5 matches, 4 won, a dragon in each, the team first in 3, and
\* a later team dragon in the other two: the rate reported is 60.0
C15_Witness ==
    /\ LolCalled("calculate_objective_control")
    /\ Len(analyzer.matches) = 5
    /\ Cardinality(Wins(analyzer.matches)) = 4
    /\ Cardinality(WithDragons(analyzer.matches)) = 5
    /\ Cardinality(TeamFirstDragon(analyzer.matches, Team)) = 3
    /\ out.value.first_dragon_rate = 600

(***************************************************************************)
(* ValorantAnalyzer.calculate_opening_duel_winrate on lists of whole       *)
(* matches of RoundsPerMatch rounds: in each match the team takes first    *)
(* blood in fb rounds and wins fb_won of them, and wins all or none of the *)
(* other rounds.                                                           *)
(***************************************************************************)
RoundsPerMatch == 10
FirstBloodSamples == {0, 4, 5, 6, RoundsPerMatch}

DuelRound(got_first_blood, won_round) ==
    [winner |-> IF won_round THEN Team ELSE Enemy,
     first_blood_team |-> IF got_first_blood THEN Team ELSE Enemy,
     spike_site |-> None,
     team_loadout_value |-> FullBuyLimit]

DuelRounds(fb, fb_won, wins_rest) ==
    [i \in 1..RoundsPerMatch |->
        IF i <= fb THEN DuelRound(TRUE, i <= fb_won) ELSE DuelRound(FALSE, wins_rest)]

AddDuelMatch(won, fb, fb_won, wins_rest) ==
    /\ Building
    /\ Len(matches) < MaxMatches
    /\ matches' = Append(matches,
           [team |-> Team, won |-> won, rounds |-> DuelRounds(fb, fb_won, wins_rest)])
    /\ UNCHANGED <<analyzer, out>>
    /\ OtherIdle

NextDuels ==
    \/ \E won \in BOOLEAN, fb \in FirstBloodSamples, wins_rest \in BOOLEAN :
          \E fb_won \in 0..fb : AddDuelMatch(won, fb, fb_won, wins_rest)
    \/ ValConstruct
    \/ ValOpeningDuel

SpecDuels == InitAnalyzer /\ [][NextDuels]_vars

\* positions, in the rounds rs of all matches, of the team's first bloods and
\* of those among them the team won
FirstBloods(rs, team) == {i \in 1..Len(rs) : rs[i]["first_blood_team"] = team}
FirstBloodsWon(rs, team) == {i \in FirstBloods(rs, team) : rs[i]["winner"] = team}

\* C16: over the rounds of all matches, first_blood_rate is 100 x (team first
\* bloods) / (rounds) and, when the team has a first blood, first_blood_conversion
\* is 100 x (team first bloods in rounds the team won) / (team first bloods),
\* each rounded to one decimal (here in tenths of a percent).
C16_FirstBloodRates ==
    LET rs == RoundsScanned(analyzer.matches)
        fbs == Cardinality(FirstBloods(rs, analyzer.team_name))
        won == Cardinality(FirstBloodsWon(rs, analyzer.team_name))
    IN  (ValCalled("calculate_opening_duel_winrate") /\ rs # <<>>) =>
            /\ ~out.raised
            /\ out.value.first_blood_rate = RoundHalfEven(1000 * fbs, Len(rs))
            /\ fbs > 0 => out.value.first_blood_conversion = RoundHalfEven(1000 * won, fbs)

\* the scenario: 10 first bloods in 20 rounds, 8 of the 10 won: 50.0 and 80.0
C16_Witness ==
    LET rs == RoundsScanned(analyzer.matches)
    IN  /\ ValCalled("calculate_opening_duel_winrate")
        /\ Len(rs) = 20
        /\ Cardinality(FirstBloods(rs, Team)) = 10
        /\ Cardinality(FirstBloodsWon(rs, Team)) = 8
        /\ out.value.first_blood_rate = 500
        /\ out.value.first_blood_conversion = 800

\* a rate, in tenths of a percent, within 0.0 .. 100.0
InPercentRange(x) == 0 <= x /\ x <= 1000

OpeningRatesInRange(v) ==
    InPercentRange(v.first_blood_rate) /\ InPercentRange(v.first_blood_conversion)
SiteRatesInRange(v) ==
    \A s \in SiteSet : InPercentRange(v.site_percent[s]) /\ InPercentRange(v.site_winrate[s])
EcoRatesInRange(v) ==
    /\ InPercentRange(v.eco_conversion_rate)
    /\ InPercentRange(v.force_buy_winrate)
    /\ InPercentRange(v.full_buy_winrate)
ObjectiveRatesInRange(v) ==
    /\ InPercentRange(v.first_dragon_rate)
    /\ InPercentRange(v.overall_dragon_rate)
    /\ InPercentRange(v.herald_control_rate)
    /\ InPercentRange(v.baron_control_rate)

\* C17: every rate a returned metric of either analyzer carries lies in
\* 0 .. 100: win rate, match and round win rate, first-dragon and overall
\* dragon, herald and baron rates, first-blood rate and conversion, the site
\* percentages and site win rates, and the three economy win rates.
C17_RatesWithinPercentRange ==
    (analyzer.constructed /\ out.op \in ValOps \cup LolOps /\ ~out.raised) =>
        /\ out.op = "calculate_opening_duel_winrate" => OpeningRatesInRange(out.value)
        /\ out.op = "calculate_site_bias" => SiteRatesInRange(out.value)
        /\ out.op = "calculate_eco_conversion" => EcoRatesInRange(out.value)
        /\ out.op = "calculate_objective_control" => ObjectiveRatesInRange(out.value)
        /\ (out.op = "get_complete_analysis" /\ analyzer.class = "ValorantAnalyzer") =>
              /\ InPercentRange(out.value.match_win_rate)
              /\ InPercentRange(out.value.round_win_rate)
              /\ OpeningRatesInRange(out.value.opening_duel_stats)
              /\ SiteRatesInRange(out.value.site_bias_stats)
              /\ EcoRatesInRange(out.value.economy_stats)
        /\ (out.op = "get_complete_analysis" /\ analyzer.class = "LolAnalyzer") =>
              /\ InPercentRange(out.value.win_rate)
              /\ ObjectiveRatesInRange(out.value.objective_control)

\* a complete VALORANT analysis of a match with two rounds, both won
C17_Witness ==
    /\ analyzer.constructed
    /\ analyzer.class = "ValorantAnalyzer"
    /\ out.op = "get_complete_analysis"
    /\ ~out.raised
    /\ Len(analyzer.matches) = 1
    /\ out.value.total_rounds_played = 2
    /\ out.value.round_win_rate = 1000

(***************************************************************************)
(* LolAnalyzer.calculate_jungle_proximity on lists of whole matches: each  *)
(* match carries up to MaxLaneSamples position samples per lane.           *)
(***************************************************************************)
MaxLaneSamples == 4

LaneSample(lane) ==
    CHOOSE e \in EventSamples("jungle_positions") : e["lane"] = lane

JunglePositions(top, mid, bot) ==
    [i \in 1..(top + mid + bot) |->
        IF i <= top THEN LaneSample("Top")
        ELSE IF i <= top + mid THEN LaneSample("Mid")
        ELSE LaneSample("Bot")]

AddJungleMatch(top, mid, bot) ==
    /\ Building
    /\ Len(matches) < MaxMatches
    /\ matches' = Append(matches,
           [team |-> Team, won |-> TRUE, duration |-> PlainDuration,
            dragons |-> <<>>, heralds |-> <<>>, barons |-> <<>>,
            gold_updates |-> <<>>, jungle_positions |-> JunglePositions(top, mid, bot)])
    /\ UNCHANGED <<analyzer, out>>
    /\ OtherIdle

NextLanes ==
    \/ \E top \in 0..MaxLaneSamples, mid \in 0..MaxLaneSamples, bot \in 0..MaxLaneSamples :
          AddJungleMatch(top, mid, bot)
    \/ LolConstruct
    \/ LolJungle

SpecLanes == InitAnalyzer /\ [][NextLanes]_vars

LanePercentSum(v) == v.top_lane_percent + v.mid_lane_percent + v.bot_lane_percent

\* C18: with at least one position sample, the three lane percentages add up
\* to 100.0 give or take 0.1 (999 .. 1001 tenths of a percent); with no sample
\* all three are 0.
C18_LanePercentagesSum ==
    LolCalled("calculate_jungle_proximity") =>
        /\ ~out.raised
        /\ IF NumEvents(analyzer.matches, "jungle_positions") > 0
           THEN 999 <= LanePercentSum(out.value) /\ LanePercentSum(out.value) <= 1001
           ELSE JungleNeutral(out.value)

\* one, one and four samples: 16.7 + 16.7 + 66.7 = 100.1
C18_Witness ==
    /\ LolCalled("calculate_jungle_proximity")
    /\ NumEvents(analyzer.matches, "jungle_positions") = 6
    /\ LanePercentSum(out.value) = 1001

MetricOps == (ValOps \cup LolOps) \ {"get_complete_analysis"}

\* every record of the analyzer's list carries the fields of its game
WellFormedList ==
    \A i \in 1..Len(analyzer.matches) :
        (IF analyzer.class = "LolAnalyzer" THEN LolFields ELSE ValFields)
            \subseteq DOMAIN analyzer.matches[i]

HasInsight(v) == Has(v, "insight")
HasRawArrays(v) ==
    Has(v, "heatmap_data") /\ {"x", "y", "lane"} \subseteq DOMAIN v["heatmap_data"]

\* C19: on every well-formed match list, a list without position samples,
\* rounds or plants included, every calculate_* method returns a group that
\* carries an insight, the jungle-proximity group carries the raw x, y and
\* lane arrays too, and so do the groups inside a LoL complete analysis.
\* Violated: without position samples the jungle-proximity group has neither
\* insight nor arrays, and without plants calculate_site_bias raises.
C19_GroupsCarryInsight ==
    (analyzer.constructed /\ WellFormedList) =>
        /\ out.op \in MetricOps => ~out.raised /\ HasInsight(out.value)
        /\ out.op = "calculate_jungle_proximity" => HasRawArrays(out.value)
        /\ (out.op = "get_complete_analysis" /\ analyzer.class = "LolAnalyzer") =>
              /\ ~out.raised
              /\ HasInsight(out.value.jungle_proximity)
              /\ HasRawArrays(out.value.jungle_proximity)
              /\ HasInsight(out.value.objective_control)
              /\ HasInsight(out.value.gold_efficiency)

\* what does hold: every group returned carries an insight unless it is the
\* jungle-proximity group of a list without position samples
C19_InsightUnlessNoSamples ==
    (analyzer.constructed /\ out.op \in MetricOps /\ ~out.raised) =>
        \/ HasInsight(out.value)
        \/ /\ out.op = "calculate_jungle_proximity"
           /\ EventsScanned(analyzer.matches, "jungle_positions") = <<>>

(***************************************************************************)
(* GridDataLoader._transform_stats_to_matches called on its own: the       *)
(* caller hands it the statistics of the feed (the win entries), a batch   *)
(* size and a game; matches holds the list it returns.                     *)
(***************************************************************************)
BigBatch == 50
RelabelWinSamples == WinEntrySamples \cup {<<[value |-> TRUE, percentage |-> 58]>>}
RelabelBatches == ({"lol", "valorant"} \X {0, 1, 2}) \cup {<<"lol", BigBatch>>}

Relabel(game_type, num_matches, wins) ==
    /\ out = NoCall
    /\ \E res \in {transform_stats_to_matches([wins |-> wins], DisplayName("83"),
                       num_matches, game_type, rng.tape, rng.pos, now)} :
        /\ matches' = res.v
        /\ rng' = [rng EXCEPT !.pos = res.p % Len(rng.tape)]
        /\ out' = [op |-> "_transform_stats_to_matches", game_type |-> game_type,
                   num_matches |-> num_matches,
                   real_win_pct |-> WinPercentage(wins), raised |-> FALSE]
    /\ UNCHANGED <<analyzer, now, calls, env, loader>>

NextRelabel ==
    \E b \in RelabelBatches, wins \in RelabelWinSamples : Relabel(b[1], b[2], wins)

SpecRelabel == InitLoader /\ [][NextRelabel]_vars

Relabelled == out.op = "_transform_stats_to_matches"
WonCount == Cardinality({i \in 1..Len(matches) : matches[i]["won"]})

\* C20: the list _transform_stats_to_matches returns for a batch of N matches
\* and a target win percentage p has N matches, of which exactly
\* floor(N * p / 100) are flagged won.  Violated: the code takes
\* int(N * (p / 100.0)) in floating point, which is 28 and not 29 for N = 50
\* and p = 58.
C20_RelabelledWinsAreFloor ==
    Relabelled =>
        /\ Len(matches) = out.num_matches
        /\ WonCount = IntOfShareExact(Len(matches), out.real_win_pct)

\* what does hold: the batch keeps its size and the number of matches flagged
\* won is the share as the code computes it, before and after the shuffle
C20_RelabelledWinsAreComputedShare ==
    Relabelled =>
        /\ Len(matches) = out.num_matches
        /\ WonCount = IntOfShare(Len(matches), out.real_win_pct)

(***************************************************************************)
(* LolAnalyzer.calculate_gold_efficiency on lists whose gold snapshots sit *)
(* at and around the edges of the three windows: the caller appends        *)
(* matches and snapshots in any order of timestamps, then constructs the   *)
(* analyzer and asks the metric.                                           *)
(***************************************************************************)
MaxSnapshots == 3
SnapshotDiffs == {-300, 300, 500}
Snapshots == [timestamp : GoldTimeSamples, gold_difference : SnapshotDiffs]

AddBareMatch ==
    /\ Building
    /\ Len(matches) < MaxMatches
    /\ matches' = Append(matches,
           [team |-> Team, won |-> TRUE, duration |-> PlainDuration, dragons |-> <<>>,
            heralds |-> <<>>, barons |-> <<>>, gold_updates |-> <<>>,
            jungle_positions |-> <<>>])
    /\ UNCHANGED <<analyzer, out>>
    /\ OtherIdle

AddSnapshot(update) ==
    /\ Building
    /\ matches # <<>>
    /\ NumEvents(matches, "gold_updates") < MaxSnapshots
    /\ matches' = SetLast(matches,
           [Last(matches) EXCEPT !["gold_updates"] = Append(@, update)])
    /\ UNCHANGED <<analyzer, out>>
    /\ OtherIdle

NextGold ==
    \/ AddBareMatch
    \/ \E update \in Snapshots : AddSnapshot(update)
    \/ LolConstruct
    \/ LolGold

SpecGold == InitAnalyzer /\ [][NextGold]_vars

Window20 == Window(1140, 1260)
AverageIsZero(W) == W = {} \/ SumDiffs(W) = 0

\* C21: calculate_gold_efficiency reports gold_growth_rate = 0 whenever the
\* 10-minute average or the 15-minute average is 0, whether the bucket is
\* empty or holds samples whose mean is exactly 0.
C21_GrowthRateZeroOnZeroAverage ==
    (/\ LolCalled("calculate_gold_efficiency")
     /\ AverageIsZero(Window10) \/ AverageIsZero(Window15)) =>
        ~out.raised /\ out.value.gold_growth_rate = 0

\* the 10-minute bucket holds samples that cancel out, the 15-minute average
\* is not zero, and the reported growth is 0
C21_Witness ==
    /\ LolCalled("calculate_gold_efficiency")
    /\ Window10 # {} /\ SumDiffs(Window10) = 0
    /\ Window15 # {} /\ SumDiffs(Window15) # 0
    /\ ~out.raised
    /\ out.value.gold_growth_rate = 0

\* the value a bucket reports: round(mean, 0) of its differences, 0 when empty
BucketAverage(W) == IF W = {} THEN 0 ELSE RoundHalfEven(SumDiffs(W), Cardinality(W))

\* C22: calculate_gold_efficiency assigns each gold snapshot by its timestamp
\* alone: to the 10-minute bucket iff 540 <= t <= 660, to the 15-minute bucket
\* iff 840 <= t <= 960, to the 20-minute bucket iff 1140 <= t <= 1260 and to
\* no bucket otherwise; no snapshot is in two buckets, samples_at_10/15/20 are
\* the bucket sizes and each reported average is the mean of its bucket over
\* the snapshots of all matches pooled (0 for an empty bucket).
C22_SnapshotsBucketedByTimestamp ==
    LolCalled("calculate_gold_efficiency") =>
        /\ ~out.raised
        /\ out.value.samples_at_10 = Cardinality(Window10)
        /\ out.value.samples_at_15 = Cardinality(Window15)
        /\ out.value.samples_at_20 = Cardinality(Window20)
        /\ out.value.gold_diff_at_10min = BucketAverage(Window10)
        /\ out.value.gold_diff_at_15min = BucketAverage(Window15)
        /\ out.value.gold_diff_at_20min = BucketAverage(Window20)
        /\ out.value.samples_at_10 + out.value.samples_at_15 + out.value.samples_at_20
               = Cardinality(Window10 \cup Window15 \cup Window20)

\* two matches each give the 10-minute bucket a snapshot, one of them at an
\* edge of the window, a third snapshot falls in no window, and the bucket
\* reports the pooled mean of its two samples
C22_Witness ==
    /\ LolCalled("calculate_gold_efficiency")
    /\ Len(analyzer.matches) = 2
    /\ \A i \in 1..2 : \E j \in 1..Len(analyzer.matches[i]["gold_updates"]) :
           analyzer.matches[i]["gold_updates"][j]["timestamp"] \in 540..660
    /\ \E i \in Window10 : GoldUpdates[i]["timestamp"] \in {540, 660}
    /\ Cardinality(Window10 \cup Window15 \cup Window20) < Len(GoldUpdates)
    /\ ~out.raised
    /\ out.value.samples_at_10 = 2
    /\ out.value.gold_diff_at_10min = 400

(***************************************************************************)
(* ValorantAnalyzer.calculate_eco_conversion on two kinds of lists: lists  *)
(* a caller writes by hand, whose rounds carry any combination of team     *)
(* loadout, enemy loadout and is_team_eco flag, and lists the generator    *)
(* returns once the random source has been seeded.                         *)
(***************************************************************************)
EcoRoundSamples ==
    [winner : {Team}, first_blood_team : {Enemy}, spike_site : {None},
     team_loadout_value : LoadoutSamples,
     enemy_loadout_value : {EcoLimit - 1, FullBuyLimit},
     is_team_eco : BOOLEAN]

\* random.seed(s): the source yields the stream of that seed from its start
Seed(tape) ==
    /\ Building
    /\ matches = <<>>
    /\ calls = <<>>
    /\ rng' = [tape |-> tape, pos |-> 0]
    /\ UNCHANGED <<matches, analyzer, out, now, calls, env, loader>>

GenerateValSeeded(num_matches) ==
    /\ Building
    /\ rng.tape # <<>>
    /\ GenerateVal(num_matches)

AddEcoMatch ==
    /\ rng = IdleRng
    /\ ValAddMatch(TRUE)

AddEcoRound(r) ==
    /\ Building
    /\ rng = IdleRng
    /\ matches # <<>>
    /\ Len(RoundsScanned(matches)) < MaxRounds
    /\ matches' = SetLast(matches, [Last(matches) EXCEPT !["rounds"] = Append(@, r)])
    /\ UNCHANGED <<analyzer, out>>
    /\ OtherIdle

NextEco ==
    \/ \E tape \in Tapes : Seed(tape)
    \/ \E n \in {1, 2} : GenerateValSeeded(n)
    \/ AddEcoMatch
    \/ \E r \in EcoRoundSamples : AddEcoRound(r)
    \/ ValConstruct
    \/ ValEco

SpecEco == InitAnalyzer /\ [][NextEco]_vars

\* the analyzed list is one the generator returned
AnalyzedGenerated == \E i \in 1..Len(calls) : calls[i].result = analyzer.matches
IsFlaggedEco(r) == r["is_team_eco"]

\* C23: calculate_eco_conversion puts every round into exactly one bucket by
\* its team_loadout_value alone (eco iff value < 2000, force iff
\* 2000 <= value < 3500, full-buy iff value >= 3500), whatever the enemy
\* loadout and the is_team_eco flag say; and for rounds the generator
\* produced the eco bucket holds as many rounds as are flagged is_team_eco.
C23_BucketsByTeamLoadout ==
    ValCalled("calculate_eco_conversion") =>
        /\ ~out.raised
        /\ out.value.eco_rounds_played = NumRounds(IsEco)
        /\ out.value.force_rounds_played = NumRounds(IsForce)
        /\ out.value.full_buy_rounds_played = NumRounds(IsFullBuy)
        /\ out.value.eco_rounds_played + out.value.force_rounds_played
               + out.value.full_buy_rounds_played = NumRounds(IsAny)
        /\ AnalyzedGenerated => out.value.eco_rounds_played = NumRounds(IsFlaggedEco)

\* a generated list with rounds in each of the three buckets has been
\* analysed, and its eco bucket holds the flagged rounds
C23_Witness ==
    /\ ValCalled("calculate_eco_conversion")
    /\ AnalyzedGenerated
    /\ ~out.raised
    /\ out.value.eco_rounds_played > 2
    /\ out.value.force_rounds_played > 0
    /\ out.value.full_buy_rounds_played > 0
    /\ out.value.eco_rounds_played = NumRounds(IsFlaggedEco)

(***************************************************************************)
(* ValorantAnalyzer.calculate_site_bias on lists whose rounds, in any      *)
(* order and over up to two matches, have a spike on A, B or C or no       *)
(* spike, and are won or lost.                                             *)
(***************************************************************************)
MaxSiteRounds == 4
SiteRoundSamples ==
    [winner : Labels, first_blood_team : {Enemy}, spike_site : SiteSet \cup {None},
     team_loadout_value : {FullBuyLimit}]

AddSiteRound(r) ==
    /\ Building
    /\ matches # <<>>
    /\ Len(RoundsScanned(matches)) < MaxSiteRounds
    /\ matches' = SetLast(matches, [Last(matches) EXCEPT !["rounds"] = Append(@, r)])
    /\ UNCHANGED <<analyzer, out>>
    /\ OtherIdle

NextSites ==
    \/ ValAddMatch(TRUE)
    \/ \E r \in SiteRoundSamples : AddSiteRound(r)
    \/ ValConstruct
    \/ ValSiteBias

SpecSites == InitAnalyzer /\ [][NextSites]_vars

\* the rounds of the analyzed list, the positions of those with a spike on
\* a site, and of those the team won
AnalyzedRounds == RoundsScanned(analyzer.matches)
PlantsOn(site) ==
    {i \in 1..Len(AnalyzedRounds) : Get(AnalyzedRounds[i], "spike_site", None) = site}
Plants == UNION {PlantsOn(site) : site \in SiteSet}
WonOn(site) == {i \in PlantsOn(site) : AnalyzedRounds[i]["winner"] = analyzer.team_name}
SitePercentSum(v) == v.site_percent["A"] + v.site_percent["B"] + v.site_percent["C"]

FirstPlantOn(site) == CHOOSE i \in PlantsOn(site) : \A j \in PlantsOn(site) : i <= j
MostAttacked ==
    {site \in SiteSet :
        \A other \in SiteSet : Cardinality(PlantsOn(other)) <= Cardinality(PlantsOn(site))}

\* C25: when at least one round has a spike site, favorite_site is a site
\* with the largest attack count, favorite_site_attacks is that count, and
\* among sites tied for the largest count the favorite is the one whose first
\* plant comes earliest in the scan of matches and rounds in list order.
C25_FavoriteIsFirstMostAttacked ==
    (ValCalled("calculate_site_bias") /\ Plants # {}) =>
        /\ ~out.raised
        /\ out.value.favorite_site \in MostAttacked
        /\ out.value.favorite_site_attacks
               = Cardinality(PlantsOn(out.value.favorite_site))
        /\ \A site \in MostAttacked :
               FirstPlantOn(out.value.favorite_site) <= FirstPlantOn(site)

\* after a round without a plant C, A and B are attacked once each, in that
\* order and over two matches: the three tie and the favorite is C
C25_Witness ==
    /\ ValCalled("calculate_site_bias")
    /\ ~out.raised
    /\ Len(analyzer.matches) = 2
    /\ MostAttacked = SiteSet
    /\ FirstPlantOn("C") < FirstPlantOn("A")
    /\ FirstPlantOn("A") < FirstPlantOn("B")
    /\ Len(AnalyzedRounds) = MaxSiteRounds
    /\ Get(AnalyzedRounds[1], "spike_site", None) = None
    /\ out.value.favorite_site = "C"
    /\ out.value.favorite_site_attacks = 1

\* the position samples of the analyzed list in scan order, the positions of
\* those of a lane, and the percentage the result reports for a lane
AnalyzedPositions == EventsScanned(analyzer.matches, "jungle_positions")
Lanes == {"Top", "Mid", "Bot"}
SamplesOf(lane) ==
    {i \in 1..Len(AnalyzedPositions) : AnalyzedPositions[i]["lane"] = lane}
FirstSampleOf(lane) == CHOOSE i \in SamplesOf(lane) : \A j \in SamplesOf(lane) : i <= j
MostSampled ==
    {lane \in Lanes :
        \A other \in Lanes : Cardinality(SamplesOf(other)) <= Cardinality(SamplesOf(lane))}
LanePercent(v, lane) ==
    IF lane = "Top" THEN v.top_lane_percent
    ELSE IF lane = "Mid" THEN v.mid_lane_percent
    ELSE v.bot_lane_percent

\* C26: when at least one position sample exists (every lane label being
\* Top, Mid or Bot), the lane the jungle-proximity insight names is a lane
\* with the largest sample count, the percentage the insight shows is that
\* lane's percentage, and among tied lanes the one named is the lane whose
\* first sample comes earliest in scan order.
C26_InsightNamesFirstMostSampledLane ==
    (LolCalled("calculate_jungle_proximity") /\ AnalyzedPositions # <<>>) =>
        /\ ~out.raised
        /\ out.value.insight.lane \in MostSampled
        /\ out.value.insight.percent = LanePercent(out.value, out.value.insight.lane)
        /\ \A lane \in MostSampled :
               FirstSampleOf(out.value.insight.lane) <= FirstSampleOf(lane)

\* the first match has Bot samples only, the second brings Top level with
\* Bot and adds a Mid sample: the insight names Bot with Bot's percentage
C26_Witness ==
    /\ LolCalled("calculate_jungle_proximity")
    /\ AnalyzedPositions # <<>>
    /\ ~out.raised
    /\ MostSampled = {"Top", "Bot"}
    /\ SamplesOf("Mid") # {}
    /\ FirstSampleOf("Bot") < FirstSampleOf("Top")
    /\ out.value.insight.lane = "Bot"
    /\ out.value.insight.percent = out.value.bot_lane_percent
    /\ out.value.bot_lane_percent = 400

(***************************************************************************)
(* LolAnalyzer.calculate_objective_control on lists whose matches carry    *)
(* dragon, herald and baron captures credited to the analyzed team, to     *)
(* "Enemy Team" or to an opponent under its own name.                      *)
(***************************************************************************)
MaxCaptures == 4
CaptureKinds == {"dragons", "heralds", "barons"}
CaptureLabels == {Team, Enemy, "Team_1"}
NumCaptures(ms) ==
    NumEvents(ms, "dragons") + NumEvents(ms, "heralds") + NumEvents(ms, "barons")

AddCapture(kind, label) ==
    /\ Building
    /\ matches # <<>>
    /\ NumCaptures(matches) < MaxCaptures
    /\ matches' = SetLast(matches,
           [Last(matches) EXCEPT ![kind] = Append(@, [team |-> label])])
    /\ UNCHANGED <<analyzer, out>>
    /\ OtherIdle

NextCaptures ==
    \/ AddBareMatch
    \/ \E kind \in CaptureKinds, label \in CaptureLabels : AddCapture(kind, label)
    \/ LolConstruct
    \/ LolObjective

SpecCaptures == InitAnalyzer /\ [][NextCaptures]_vars

\* the captures of a kind in the analyzed list, as <<match, position>>
\* pairs, and those credited to the analyzed team
CapturesOf(kind) ==
    {<<i, j>> \in (1..Len(analyzer.matches)) \X (1..MaxCaptures) :
        j <= Len(analyzer.matches[i][kind])}
TeamCapturesOf(kind) ==
    {c \in CapturesOf(kind) :
        analyzer.matches[c[1]][kind][c[2]]["team"] = analyzer.team_name}
PooledRate(kind) ==
    IF CapturesOf(kind) = {} THEN 0
    ELSE RoundHalfEven(1000 * Cardinality(TeamCapturesOf(kind)),
                       Cardinality(CapturesOf(kind)))

\* C27: overall_dragon_rate, herald_control_rate and baron_control_rate are
\* each 100 x (captures credited to the analyzed team) / (all captures of the
\* type), both counted over all matches together and not averaged over the
\* matches; total_* and team_* are those pooled counts, and a capture whose
\* team label is not the analyzed team's name counts as the opponent's.
C27_CaptureRatesArePooled ==
    LolCalled("calculate_objective_control") =>
        /\ ~out.raised
        /\ out.value.total_dragons = Cardinality(CapturesOf("dragons"))
        /\ out.value.team_dragons = Cardinality(TeamCapturesOf("dragons"))
        /\ out.value.total_heralds = Cardinality(CapturesOf("heralds"))
        /\ out.value.team_heralds = Cardinality(TeamCapturesOf("heralds"))
        /\ out.value.total_barons = Cardinality(CapturesOf("barons"))
        /\ out.value.team_barons = Cardinality(TeamCapturesOf("barons"))
        /\ out.value.overall_dragon_rate = PooledRate("dragons")
        /\ out.value.herald_control_rate = PooledRate("heralds")
        /\ out.value.baron_control_rate = PooledRate("barons")

\* one match with a single dragon, taken by the team, and one with three
\* dragons of which the team took one and a named opponent another: the
\* per-match rates are 100 and 33.3, the reported rate is the pooled 50.0
C27_Witness ==
    /\ LolCalled("calculate_objective_control")
    /\ ~out.raised
    /\ Len(analyzer.matches) = 2
    /\ Len(analyzer.matches[1]["dragons"]) = 1
    /\ Len(analyzer.matches[2]["dragons"]) = 3
    /\ \E c \in CapturesOf("dragons") :
           analyzer.matches[c[1]]["dragons"][c[2]]["team"] = "Team_1"
    /\ out.value.total_dragons = 4
    /\ out.value.team_dragons = 2
    /\ out.value.overall_dragon_rate = 500

(***************************************************************************)
(* Properties of the VALORANT records a load returns (checked under        *)
(* SpecLoader).                                                            *)
(***************************************************************************)
ValLoaded == out.op = "load_valorant_matches" /\ ~out.raised
WonAgreesWithScore(m) == m["won"] <=> (m["team_score"] > m["enemy_score"])
RoundsAgreeWithScore(m) == Len(m["rounds"]) = m["team_score"] + m["enemy_score"]

\* C28: every VALORANT match record load_valorant_matches returns, on the
\* mock path, the fallback path and the live relabelling path alike, has
\* won true iff team_score > enemy_score and has exactly
\* team_score + enemy_score round records.  Violated on the live path: the
\* relabelling overwrites "won" and leaves the scores as generated.
C28_LoadedValRecordsConsistent ==
    ValLoaded =>
        \A i \in 1..Len(matches) :
            WonAgreesWithScore(matches[i]) /\ RoundsAgreeWithScore(matches[i])

\* off the relabelling path the records are consistent, and on every path
\* the number of round records is the sum of the scores
C28_ConsistentUnlessRelabelled ==
    ValLoaded =>
        \A i \in 1..Len(matches) :
            /\ out.path # "live" => WonAgreesWithScore(matches[i])
            /\ RoundsAgreeWithScore(matches[i])

\* a live load returned two relabelled matches
C28_RelabelledLoaded ==
    ValLoaded /\ out.path = "live" /\ Len(matches) = 2

(***************************************************************************)
(* The LoL generator on streams of four variates: a kill draws three       *)
(* variates (timestamp, x, y), so on these streams successive kills of a   *)
(* match draw different timestamps.                                        *)
(***************************************************************************)
LongTapes == [1..(TapeLen + 1) -> {0, 50, UTop}]

InitKills ==
    /\ matches = <<>>
    /\ analyzer = NoAnalyzer
    /\ out = NoCall
    /\ rng \in [tape : LongTapes, pos : {0}]
    /\ now = 0
    /\ calls = <<>>
    /\ env = IdleEnv
    /\ loader = NoLoader

NextKills ==
    \/ Reseed
    \/ \E n \in {1, 2} : GenerateLol(n)

SpecKills == InitKills /\ [][NextKills]_vars

(***************************************************************************)
(* Properties of the kills of generated LoL matches (checked under         *)
(* SpecKills and SpecGen).                                                 *)
(***************************************************************************)
FirstBloodKills(m) == {k \in 1..Len(m["kills"]) : m["kills"][k]["is_first_blood"]}
NoKillBefore(m, k) ==
    \A j \in 1..Len(m["kills"]) : m["kills"][j]["timestamp"] >= m["kills"][k]["timestamp"]

\* C29: in every generated LoL match exactly one kill is flagged
\* is_first_blood, and no other kill of the match has a strictly earlier
\* timestamp (the flagged kill opens the timestamp-ordered kill sequence).
\* Violated: the flag goes to the kill drawn first, and the kills are sorted
\* by their random timestamps afterwards.
C29_FirstBloodIsEarliestKill ==
    \A m \in GeneratedLol :
        /\ Cardinality(FirstBloodKills(m)) = 1
        /\ \A k \in FirstBloodKills(m) : NoKillBefore(m, k)

\* every generated match has exactly one flagged kill, and its kills are in
\* timestamp order
C29_OneFirstBloodSortedKills ==
    \A m \in GeneratedLol :
        /\ Cardinality(FirstBloodKills(m)) = 1
        /\ \A j \in 1..(Len(m["kills"]) - 1) :
               m["kills"][j]["timestamp"] <= m["kills"][j + 1]["timestamp"]

\* a generated match whose flagged kill is not its earliest
C29_LateFirstBlood ==
    \E m \in GeneratedLol : \E k \in FirstBloodKills(m) : ~NoKillBefore(m, k)

(***************************************************************************)
(* Properties of the dispatch of generate_scouting_report (checked under   *)
(* SpecAgent); out.environ is the environment the call ran in.             *)
(***************************************************************************)
ReportAsked == out.op = "generate_scouting_report"
OpenAiKeySet == Truthy(out.environ.vars["OPENAI_API_KEY"])
\* the texts with the section "THE WIN CONDITION" of the template
TemplateReports == {MockReport(g) : g \in GameTypes}
\* the texts _call_openai, _call_gemini and _call_openrouter return
ProviderCallTexts == ReportTexts \ TemplateReports

=============================================================================
